---- MODULE Spec2Model ----
(***************************************************************************)
(* Verification model of the systemd-coredump MCP server.                  *)
(*                                                                         *)
(* Text produced by the external tools is a sequence of symbols: the       *)
(* punctuation and whitespace characters the patterns of the code look at  *)
(* are one symbol each, every other run of characters (an identifier, a    *)
(* number, a path fragment) is one atom.  A string value is therefore a    *)
(* sequence of symbols between two quote symbols, and the code's regular   *)
(* expressions see inside it exactly as they do on the real text.          *)
(***************************************************************************)
EXTENDS Integers, Sequences, FiniteSets, TLC

VARIABLES coredumps, journal, files, last, pure, running

vars == <<coredumps, journal, files, last, pure, running>>

(***************************************************************************)
(* Symbols                                                                 *)
(***************************************************************************)
QUOTE == "\""
SP == " "
NL == "\n"
TAB == "\t"

\* \s of the code's regular expressions
IsSpace(c) == c \in {SP, NL, TAB}

\* first position >= i of t that holds no whitespace (Len(t)+1 when none)
RECURSIVE SkipWs(_, _)
SkipWs(t, i) ==
  IF i > Len(t) THEN i
  ELSE IF IsSpace(t[i]) THEN SkipWs(t, i + 1)
  ELSE i

\* Number.prototype.toString of a natural number
Digits == <<"0", "1", "2", "3", "4", "5", "6", "7", "8", "9">>

RECURSIVE toString(_)
toString(n) ==
  IF n < 10 THEN Digits[n + 1] ELSE toString(n \div 10) \o Digits[(n % 10) + 1]

\* String.prototype.trim on a text
RECURSIVE Trim(_)
Trim(t) ==
  IF t = <<>> THEN <<>>
  ELSE IF IsSpace(Head(t)) THEN Trim(Tail(t))
  ELSE IF IsSpace(t[Len(t)]) THEN Trim(SubSeq(t, 1, Len(t) - 1))
  ELSE t

\* string concatenation of the symbols of a text
RECURSIVE Concat(_)
Concat(t) == IF t = <<>> THEN "" ELSE Head(t) \o Concat(Tail(t))

\* Array.prototype.join(' ') over a list of tokens, as a text
RECURSIVE JoinSp(_)
JoinSp(parts) ==
  IF parts = <<>> THEN <<>>
  ELSE IF Len(parts) = 1 THEN <<parts[1]>>
  ELSE <<parts[1], SP>> \o JoinSp(Tail(parts))


(***************************************************************************)
(* The dumps the system can hold.  Dump i of the pool has fixed            *)
(* attributes; the journal is the set of pool dumps the listing tool       *)
(* currently reports, in the order of their indices (oldest first).        *)
(***************************************************************************)
NumDumps == 3

\* largest signal number the listings carry
MaxSig == 31

Pool == 1..NumDumps

\* microseconds since the epoch; dumps 2k and 2k+1 fall in the same second
TimeOf(i) == 45000000 + i * 500000

\* dumps 2k and 2k+1 also share their pid
PidOf(i) == 2465 + ((i \div 2) % 2)

UidOf(i) == 1000

GidOf(i) == 100

SigOf(i) == <<11, 6, 23, 4>>[(i % 4) + 1]

CorefileOf(i) == <<"inaccessible", "present", "missing", "present">>[(i % 4) + 1]

\* executable paths: plain, with a space, and with brace characters
ExeOf(i) ==
  CASE i % 3 = 1 -> <<"/usr/bin/cuteime">>
    [] i % 3 = 2 -> <<"/opt/my", SP, "app">>
    [] OTHER     -> <<"/opt/", "{", "a", "}", "{", "b", "}", "/run">>

(***************************************************************************)
(* Structured mode: the repair of the listing tool's output                *)
(***************************************************************************)

\* the elements of a set of numbers in ascending order
RECURSIVE Sorted(_)
Sorted(S) ==
  IF S = {} THEN <<>>
  ELSE LET m == CHOOSE x \in S : \A y \in S : x <= y IN <<m>> \o Sorted(S \ {m})

\* last position <= i of t that holds no whitespace (0 when none)
RECURSIVE PrevNonWs(_, _)
PrevNonWs(t, i) ==
  IF i < 1 THEN 0
  ELSE IF IsSpace(t[i]) THEN PrevNonWs(t, i - 1)
  ELSE i

\* the concatenation of pieces[lo..hi]
RECURSIVE Flatten(_, _, _)
Flatten(pieces, lo, hi) ==
  IF lo > hi THEN <<>>
  ELSE IF lo = hi THEN pieces[lo]
  ELSE LET mid == (lo + hi) \div 2 IN
       Flatten(pieces, lo, mid) \o Flatten(pieces, mid + 1, hi)

\* t[i] starts a match of /a\s*b/ (a and b two different characters, no whitespace)
StartsPair(t, a, b, i) ==
  /\ t[i] = a
  /\ LET j == SkipWs(t, i + 1) IN j <= Len(t) /\ t[j] = b

\* t[i] lies inside a match of /a\s*b/ after its first character.  Matches
\* of such a pattern cannot overlap, so every pair is a match of the g flag
InsidePair(t, a, b, i) ==
  LET p == PrevNonWs(t, i - 1) IN
  /\ p >= 1
  /\ t[p] = a
  /\ \/ t[i] = b
     \/ IsSpace(t[i]) /\ LET j == SkipWs(t, i) IN j <= Len(t) /\ t[j] = b

\* String.replace(/a\s*b/g, repl)
ReplaceAll(t, a, b, repl) ==
  LET pieces == [i \in 1..Len(t) |->
                   IF StartsPair(t, a, b, i) THEN repl
                   ELSE IF InsidePair(t, a, b, i) THEN <<>>
                   ELSE <<t[i]>>]
  IN Flatten(pieces, 1, Len(t))

\* String.replace(/a\s*b/, repl) (no g flag: the first match only)
ReplaceFirst(t, a, b, repl) ==
  LET starts == {i \in 1..Len(t) : StartsPair(t, a, b, i)} IN
  IF starts = {} THEN t
  ELSE LET m == CHOOSE i \in starts : \A k \in starts : i <= k IN
       SubSeq(t, 1, m - 1) \o repl \o SubSeq(t, SkipWs(t, m + 1) + 1, Len(t))

\* .replace(/\}\s*\{/g, '},{')
AddCommas(t) == ReplaceAll(t, "}", "{", <<"}", ",", "{">>)

\* .replace(/\}\s*\]/g, '}]')
FixArrayEnd(t) == ReplaceAll(t, "}", "]", <<"}", "]">>)

\* .replace(/\[\s*\{/, '[{')
FixArrayStart(t) == ReplaceFirst(t, "[", "{", <<"[", "{">>)

correctedJson(stdout) == FixArrayStart(FixArrayEnd(AddCommas(stdout)))

(***************************************************************************)
(* JSON.parse, restricted to the shapes a listing has: an array of flat    *)
(* objects whose values are numbers or strings (spec 4.1: the format never *)
(* nests).  A decoded value is [kind, num, str], str being the string the  *)
(* symbols of the literal spell; a decoded object is a function from its   *)
(* keys to such values.                                                    *)
(***************************************************************************)
NumVal(n) == [kind |-> "num", num |-> n, str |-> ""]
StrVal(t) == [kind |-> "str", num |-> 0, str |-> t]
Undefined == [kind |-> "undefined", num |-> 0, str |-> ""]

\* the numbers a listing can carry
NumDomain ==
  (0 .. MaxSig) \cup {PidOf(i) : i \in Pool} \cup {TimeOf(i) : i \in Pool}
    \cup {UidOf(i) : i \in Pool} \cup {GidOf(i) : i \in Pool}

NumLits == {toString(n) : n \in NumDomain}

IsNumLit(c) == c \in NumLits

NumOf(c) == CHOOSE n \in NumDomain : toString(n) = c

ParseFail == [ok |-> FALSE, pos |-> 0, val |-> <<>>]

\* position of the first quote at or after i (Len(t)+1 when none)
RECURSIVE NextQuote(_, _)
NextQuote(t, i) ==
  IF i > Len(t) THEN i
  ELSE IF t[i] = QUOTE THEN i
  ELSE NextQuote(t, i + 1)

\* the string literal between the quotes t[i] and t[j]; a raw control
\* character inside a string literal is a syntax error
StringUpTo(t, i, j) ==
  IF j > Len(t) THEN ParseFail
  ELSE IF \E k \in (i + 1)..(j - 1) : t[k] \in {NL, TAB} THEN ParseFail
  ELSE [ok |-> TRUE, pos |-> j + 1, val |-> Concat(SubSeq(t, i + 1, j - 1))]

\* a string literal starting at the quote t[i]
ParseString(t, i) == StringUpTo(t, i, NextQuote(t, i + 1))

StringScalar(s) ==
  IF s.ok THEN [ok |-> TRUE, pos |-> s.pos, val |-> StrVal(s.val)] ELSE ParseFail

\* a number or a string at position i
ParseScalar(t, i) ==
  IF i > Len(t) THEN ParseFail
  ELSE IF t[i] = QUOTE THEN StringScalar(ParseString(t, i))
  ELSE IF IsNumLit(t[i]) THEN [ok |-> TRUE, pos |-> i + 1, val |-> NumVal(NumOf(t[i]))]
  ELSE ParseFail

\* The members of an object, i at the place of a key; acc holds the
\* <<key, value>> pairs read so far.  One step per token: the key k, the
\* colon at c, the value v, then the comma or closing brace at e.
RECURSIVE ParseMembers(_, _, _)
MemberEnd(t, e, acc) ==
  IF e > Len(t) THEN ParseFail
  ELSE IF t[e] = "}" THEN [ok |-> TRUE, pos |-> e + 1, val |-> acc]
  ELSE IF t[e] = "," THEN ParseMembers(t, e + 1, acc)
  ELSE ParseFail

MemberValue(t, key, v, acc) ==
  IF ~v.ok THEN ParseFail
  ELSE MemberEnd(t, SkipWs(t, v.pos), Append(acc, <<key, v.val>>))

MemberColon(t, k, c, acc) ==
  IF c > Len(t) \/ t[c] # ":" THEN ParseFail
  ELSE MemberValue(t, k.val, ParseScalar(t, SkipWs(t, c + 1)), acc)

MemberKey(t, k, acc) ==
  IF ~k.ok THEN ParseFail ELSE MemberColon(t, k, SkipWs(t, k.pos), acc)

MemberAt(t, a, acc) ==
  IF a > Len(t) \/ t[a] # QUOTE THEN ParseFail
  ELSE MemberKey(t, ParseString(t, a), acc)

ParseMembers(t, i, acc) == MemberAt(t, SkipWs(t, i), acc)

\* the object of a list of <<key, value>> pairs: a repeated key keeps its last value
MakeObject(pairs) ==
  [k \in {pairs[n][1] : n \in 1..Len(pairs)} |->
     pairs[CHOOSE m \in 1..Len(pairs) :
             /\ pairs[m][1] = k
             /\ \A m2 \in (m + 1)..Len(pairs) : pairs[m2][1] # k][2]]

ObjectOf(m) ==
  IF m.ok THEN [ok |-> TRUE, pos |-> m.pos, val |-> MakeObject(m.val)] ELSE ParseFail

ObjectAt(t, a) ==
  IF a > Len(t) THEN ParseFail
  ELSE IF t[a] = "}" THEN [ok |-> TRUE, pos |-> a + 1, val |-> MakeObject(<<>>)]
  ELSE ObjectOf(ParseMembers(t, a, <<>>))

\* an object starting at the brace t[i]
ParseObject(t, i) == ObjectAt(t, SkipWs(t, i + 1))

\* the elements of an array, i at the place of an element; acc holds the
\* objects read so far
RECURSIVE ParseElements(_, _, _)
ElementEnd(t, e, acc) ==
  IF e > Len(t) THEN ParseFail
  ELSE IF t[e] = "]" THEN [ok |-> TRUE, pos |-> e + 1, val |-> acc]
  ELSE IF t[e] = "," THEN ParseElements(t, e + 1, acc)
  ELSE ParseFail

ElementOf(t, o, acc) ==
  IF ~o.ok THEN ParseFail ELSE ElementEnd(t, SkipWs(t, o.pos), Append(acc, o.val))

ElementAt(t, a, acc) ==
  IF a > Len(t) \/ t[a] # "{" THEN ParseFail ELSE ElementOf(t, ParseObject(t, a), acc)

ParseElements(t, i, acc) == ElementAt(t, SkipWs(t, i), acc)

SyntaxError == [kind |-> "error", items |-> <<>>]

\* the document is what was read if nothing but whitespace follows it
Document(t, r, kind, items) ==
  IF r.ok /\ SkipWs(t, r.pos) > Len(t) THEN [kind |-> kind, items |-> items]
  ELSE SyntaxError

ArrayDocument(t, r) == Document(t, r, "array", r.val)

ObjectDocument(t, o) == Document(t, o, "object", <<o.val>>)

\* an array whose first token after the bracket is t[b]
ArrayFrom(t, b) ==
  IF b <= Len(t) /\ t[b] = "]"
  THEN Document(t, [ok |-> TRUE, pos |-> b + 1], "array", <<>>)
  ELSE ArrayDocument(t, ParseElements(t, b, <<>>))

DocumentAt(t, a) ==
  IF a > Len(t) THEN SyntaxError
  ELSE IF t[a] = "[" THEN ArrayFrom(t, SkipWs(t, a + 1))
  ELSE IF t[a] = "{" THEN ObjectDocument(t, ParseObject(t, a))
  ELSE SyntaxError

\* JSON.parse(t): kind "array" with its objects, kind "object" with the one
\* object, or kind "error" (JSON.parse throws)
JSONparse(t) == DocumentAt(t, SkipWs(t, 1))

\* entry.key of a decoded object (undefined when the key is absent)
Get(entry, key) == IF key \in DOMAIN entry THEN entry[key] ELSE Undefined

(***************************************************************************)
(* Structured mode: the per-object fallback                                *)
(***************************************************************************)

\* position of the first brace (opening or closing) at or after i
NextBrace(t, i) ==
  LET S == {j \in i..Len(t) : t[j] \in {"{", "}"}} IN
  IF S = {} THEN Len(t) + 1 ELSE CHOOSE j \in S : \A k \in S : j <= k

\* t[i] starts a match of /\{[^{}]*\}/
StartsObject(t, i) ==
  /\ t[i] = "{"
  /\ LET j == NextBrace(t, i + 1) IN j <= Len(t) /\ t[j] = "}"

\* stdout.match(/\{[^{}]*\}/g) || []: the matches cannot overlap
objectMatches(stdout) ==
  LET starts == Sorted({i \in 1..Len(stdout) : StartsObject(stdout, i)}) IN
  [k \in 1..Len(starts) |-> SubSeq(stdout, starts[k], NextBrace(stdout, starts[k] + 1))]

\* .replace(/\n/g, ' ').replace(/\t/g, ' ').replace(/\s+/g, ' ')
cleanStr(t) ==
  LET pieces == [i \in 1..Len(t) |->
                   IF ~IsSpace(t[i]) THEN <<t[i]>>
                   ELSE IF i > 1 /\ IsSpace(t[i - 1]) THEN <<>>
                   ELSE <<SP>>]
  IN Flatten(pieces, 1, Len(t))

\* atoms that spell an identifier character run [a-zA-Z_][a-zA-Z0-9_]*
IdentAtoms ==
  {"time", "pid", "uid", "gid", "sig", "corefile", "exe", "size",
   "present", "missing", "inaccessible", "a", "b", "app"}

\* end of the identifier starting at the identifier atom t[i]: atoms and
\* numbers that follow without a gap belong to it
RECURSIVE IdentEnd(_, _)
IdentEnd(t, i) ==
  IF i + 1 <= Len(t) /\ (t[i + 1] \in IdentAtoms \/ IsNumLit(t[i + 1]))
  THEN IdentEnd(t, i + 1)
  ELSE i

\* position of the colon that ends a match of
\* /([{,]\s*)([a-zA-Z_][a-zA-Z0-9_]*)\s*:/ starting at t[i], 0 when none starts there
KeyColon(t, i) ==
  LET j == SkipWs(t, i + 1) IN
  IF t[i] \in {"{", ","} /\ j <= Len(t) /\ t[j] \in IdentAtoms
  THEN LET c == SkipWs(t, IdentEnd(t, j) + 1) IN
       IF c <= Len(t) /\ t[c] = ":" THEN c ELSE 0
  ELSE 0

\* the object text left as it is
fixedStrAsIs(clean) == clean

\* .replace(/([{,]\s*)([a-zA-Z_][a-zA-Z0-9_]*)\s*:/g, '$1"$2":'): a match
\* holds one '{' or ',' only, its first character, so matches cannot overlap
fixedStr(clean) ==
  LET t == clean
      starts == {i \in 1..Len(t) : KeyColon(t, i) > 0}
      inside == UNION {(m + 1)..KeyColon(t, m) : m \in starts}
      pieces == [i \in 1..Len(t) |->
                   IF i \in starts
                   THEN LET j == SkipWs(t, i + 1) IN
                        SubSeq(t, i, j - 1) \o <<QUOTE>> \o SubSeq(t, j, IdentEnd(t, j))
                          \o <<QUOTE, ":">>
                   ELSE IF i \in inside THEN <<>>
                   ELSE <<t[i]>>]
  IN Flatten(pieces, 1, Len(t))

\* allEntries.push(parsed) unless JSON.parse threw
parsedEntry(r) == IF r.kind = "object" THEN r.items ELSE <<>>

\* the decoded objects of the fallback loop: an object that does not decode is skipped
RECURSIVE allEntries(_)
allEntries(matches) ==
  IF matches = <<>> THEN <<>>
  ELSE parsedEntry(JSONparse(fixedStr(cleanStr(Head(matches))))) \o allEntries(Tail(matches))

(***************************************************************************)
(* Structured mode: from the listing's text to the records                 *)
(***************************************************************************)

\* no filter at all
FilterNothing(list, onlyPresent) == list

\* entries.filter(entry => entry.corefile === "present") when onlyPresent
FilterPresent(list, onlyPresent) ==
  IF onlyPresent
  THEN SelectSeq(list, LAMBDA e : Get(e, "corefile") = StrVal("present"))
  ELSE list

\* the entries the conversion loop runs over.  path tells which decoding
\* produced them; iterable is FALSE when entries is the one decoded object
\* of a listing that is no array (for..of then throws)
fallbackEntries(all, onlyPresent) ==
  [path |-> "fallback", iterable |-> TRUE, decoded |-> all,
   entries |-> FilterPresent(all, onlyPresent)]

entriesFrom(stdout, jsonData, onlyPresent) ==
  IF jsonData.kind = "array"
  THEN [path |-> "bulk", iterable |-> TRUE, decoded |-> jsonData.items,
        entries |-> FilterPresent(jsonData.items, onlyPresent)]
  ELSE IF jsonData.kind = "object" /\ ~onlyPresent
  THEN [path |-> "bulk", iterable |-> FALSE, decoded |-> jsonData.items,
        entries |-> jsonData.items]
  ELSE fallbackEntries(allEntries(objectMatches(stdout)), onlyPresent)

entriesOf(stdout, onlyPresent) ==
  entriesFrom(stdout, JSONparse(correctedJson(stdout)), onlyPresent)

Pad2(n) == IF n < 10 THEN "0" \o toString(n) ELSE toString(n)

\* new Date(ms).toLocaleString() in the en-US locale and the UTC zone, for
\* dates of January 1970
toLocaleString(ms) ==
  LET sec == ms \div 1000
      h == (sec \div 3600) % 24
      h12 == IF h % 12 = 0 THEN 12 ELSE h % 12
  IN "1/" \o toString(1 + sec \div 86400) \o "/1970, " \o toString(h12) \o ":"
       \o Pad2((sec \div 60) % 60) \o ":" \o Pad2(sec % 60)
       \o (IF h < 12 THEN " AM" ELSE " PM")

\* new Date(entry.time / 1000).toLocaleString()
timestampOf(entry) ==
  LET t == Get(entry, "time") IN
  IF t.kind = "num" THEN toLocaleString(t.num \div 1000) ELSE "Invalid Date"

\* `${v}` of a template literal
Template(v) ==
  IF v.kind = "num" THEN toString(v.num)
  ELSE IF v.kind = "str" THEN v.str
  ELSE "undefined"

\* a switch with the default branch only
signalNameDefault(sig) == "SIG" \o Template(sig)

\* the switch on entry.sig
signalName(sig) ==
  IF sig = NumVal(6) THEN "SIGABRT"
  ELSE IF sig = NumVal(11) THEN "SIGSEGV"
  ELSE IF sig = NumVal(4) THEN "SIGILL"
  ELSE IF sig = NumVal(5) THEN "SIGTRAP"
  ELSE IF sig = NumVal(8) THEN "SIGFPE"
  ELSE IF sig = NumVal(9) THEN "SIGKILL"
  ELSE "SIG" \o Template(sig)

\* entry.pid.toString() and its like throw on undefined
Throws(entry) ==
  \E k \in {"pid", "uid", "gid"} : Get(entry, k).kind = "undefined"

NoPath == ""

\* a CoreDumpInfo whose id leads with the pid
dumpInfoPidFirst(entry) ==
  [id        |-> Template(Get(entry, "pid")) \o "-" \o timestampOf(entry),
   pid       |-> Template(Get(entry, "pid")),
   uid       |-> Template(Get(entry, "uid")),
   gid       |-> Template(Get(entry, "gid")),
   signal    |-> signalName(Get(entry, "sig")),
   timestamp |-> timestampOf(entry),
   cmdline   |-> "",
   exe       |-> Get(entry, "exe").str,
   hostname  |-> "",
   coredump  |-> NoPath]

\* the CoreDumpInfo of one entry (coredump: the extracted path, NoPath when unset)
dumpInfo(entry) ==
  [id        |-> timestampOf(entry) \o "-" \o Template(Get(entry, "pid")),
   pid       |-> Template(Get(entry, "pid")),
   uid       |-> Template(Get(entry, "uid")),
   gid       |-> Template(Get(entry, "gid")),
   signal    |-> signalName(Get(entry, "sig")),
   timestamp |-> timestampOf(entry),
   cmdline   |-> "",
   exe       |-> Get(entry, "exe").str,
   hostname  |-> "",
   coredump  |-> NoPath]

\* number of entries the conversion loop completes before one throws
RECURSIVE Converted(_)
Converted(entries) ==
  IF entries = <<>> \/ Throws(Head(entries)) THEN 0
  ELSE 1 + Converted(Tail(entries))

EmptyMap == [k \in {} |-> 0]

\* the Map after set(d.id, d) for each d of dumps in order
MapOf(dumps) ==
  [k \in {dumps[n].id : n \in 1..Len(dumps)} |->
     dumps[CHOOSE n \in 1..Len(dumps) :
             /\ dumps[n].id = k
             /\ \A m \in (n + 1)..Len(dumps) : dumps[m].id # k]]

\* a listCoredumps that takes a listing without entries for a failure
listedSome(e, n, dumps) ==
  [result  |-> IF e.iterable /\ n = Len(e.entries) /\ n > 0 THEN "ok" ELSE "InternalError",
   dumps   |-> IF e.iterable /\ n = Len(e.entries) THEN dumps ELSE <<>>,
   map     |-> MapOf(dumps),
   path    |-> e.path,
   decoded |-> e.decoded]

\* what listCoredumps leaves when the loop has completed n entries: the
\* result, the list returned and the mapping (cleared, then filled up to
\* the entry that throws)
listed(e, n, dumps) ==
  [result  |-> IF e.iterable /\ n = Len(e.entries) THEN "ok" ELSE "InternalError",
   dumps   |-> IF e.iterable /\ n = Len(e.entries) THEN dumps ELSE <<>>,
   map     |-> MapOf(dumps),
   path    |-> e.path,
   decoded |-> e.decoded]

convert(e, n) == listed(e, n, [k \in 1..n |-> dumpInfo(e.entries[k])])

convertAll(e) == convert(e, IF e.iterable THEN Converted(e.entries) ELSE 0)

\* listCoredumps once the tool has answered stdout
parseListing(stdout, onlyPresent) == convertAll(entriesOf(stdout, onlyPresent))

(***************************************************************************)
(* The listing tool: `coredumpctl list --json=pretty` as a black box.      *)
(* What it prints for a journal depends on its version; a style fixes      *)
(* whether objects are separated by commas, whether keys are quoted and    *)
(* whether the text is laid out over lines.                                *)
(***************************************************************************)
Styles ==
  {[commas |-> TRUE,  quoted |-> TRUE,  pretty |-> TRUE],
   [commas |-> FALSE, quoted |-> TRUE,  pretty |-> TRUE],
   [commas |-> FALSE, quoted |-> TRUE,  pretty |-> FALSE],
   [commas |-> FALSE, quoted |-> FALSE, pretty |-> TRUE]}

\* the styles the manager is run against: the text of a current tool, and
\* the text without commas and key quotes that the fallback is written for
ToolStyles == {st \in Styles : st.pretty /\ st.commas = st.quoted}

Key(name, st) == IF st.quoted THEN <<QUOTE, name, QUOTE>> ELSE <<name>>

Field(name, value, st, isLast) ==
  (IF st.pretty THEN <<NL, TAB, TAB>> ELSE <<>>)
    \o Key(name, st)
    \o (IF st.pretty THEN <<SP, ":", SP>> ELSE <<":">>)
    \o value
    \o (IF isLast THEN <<>> ELSE <<",">>)

Num(n) == <<toString(n)>>

Str(t) == <<QUOTE>> \o t \o <<QUOTE>>

\* the journal entry of dump i of the pool; lacks: the fields the tool
\* does not print for it
DumpEntry(i) ==
  [time |-> TimeOf(i), pid |-> PidOf(i), uid |-> UidOf(i), gid |-> GidOf(i),
   sig |-> SigOf(i), corefile |-> CorefileOf(i), exe |-> ExeOf(i), lacks |-> {}]

\* a field of an entry, when the entry has it
OptField(name, value, st, e) ==
  IF name \in e.lacks THEN <<>> ELSE Field(name, value, st, FALSE)

\* the object the tool prints for a journal entry
RenderEntry(e, st) ==
  (IF st.pretty THEN <<NL, TAB, "{">> ELSE <<"{">>)
    \o OptField("time", Num(e.time), st, e)
    \o OptField("pid", Num(e.pid), st, e)
    \o OptField("uid", Num(e.uid), st, e)
    \o OptField("gid", Num(e.gid), st, e)
    \o Field("sig", Num(e.sig), st, FALSE)
    \o Field("corefile", Str(<<e.corefile>>), st, FALSE)
    \o Field("exe", Str(e.exe), st, TRUE)
    \o (IF st.pretty THEN <<NL, TAB, "}">> ELSE <<"}">>)

\* the objects of the entries of list, in order
RECURSIVE RenderEntries(_, _)
RenderEntries(list, st) ==
  IF list = <<>> THEN <<>>
  ELSE RenderEntry(Head(list), st)
         \o (IF st.commas /\ Len(list) > 1 THEN <<",">> ELSE <<>>)
         \o RenderEntries(Tail(list), st)

\* the text of a listing of the entries of list
RenderListing(list, st) ==
  <<"[">> \o RenderEntries(list, st) \o (IF st.pretty THEN <<NL, "]">> ELSE <<"]">>)

\* the entries of the dumps of a set of pool indices, oldest first
EntriesOf(S) == LET idx == Sorted(S) IN [k \in 1..Len(idx) |-> DumpEntry(idx[k])]

(***************************************************************************)
(* Tabular mode: `coredumpctl list --no-legend` parsed column by column.   *)
(* Three revisions of the loop exist: listCoredumps of src/index.ts, the   *)
(* listCoredumps that drops the size column and keeps present rows only,   *)
(* and the parseCoredumpctlOutput of the parsing test.                     *)
(***************************************************************************)

\* String.prototype.split('\n')
splitLines(t) ==
  LET cuts == Sorted({i \in 1..Len(t) : t[i] = NL})
      n == Len(cuts)
  IN [k \in 1..(n + 1) |->
        SubSeq(t, IF k = 1 THEN 1 ELSE cuts[k - 1] + 1,
                  IF k = n + 1 THEN Len(t) ELSE cuts[k] - 1)]

\* last position of the run of non-whitespace that starts at i
RECURSIVE RunEnd(_, _)
RunEnd(t, i) ==
  IF i = Len(t) \/ IsSpace(t[i + 1]) THEN i ELSE RunEnd(t, i + 1)

\* String.prototype.split(/\s+/) of a trimmed line
splitWs(t) ==
  IF t = <<>> THEN <<"">>
  ELSE LET starts == Sorted({i \in 1..Len(t) :
                               ~IsSpace(t[i]) /\ (i = 1 \/ IsSpace(t[i - 1]))})
       IN [k \in 1..Len(starts) |-> Concat(SubSeq(t, starts[k], RunEnd(t, starts[k])))]

\* Array.prototype.indexOf, zero-based, -1 when absent
indexOf(parts, x) ==
  IF \E i \in 1..Len(parts) : parts[i] = x
  THEN (CHOOSE i \in 1..Len(parts) :
          parts[i] = x /\ \A j \in 1..(i - 1) : parts[j] # x) - 1
  ELSE -1

\* parts[i] of a JavaScript array, "undefined" standing for undefined
At(parts, i) == IF i >= 0 /\ i < Len(parts) THEN parts[i + 1] ELSE "undefined"

\* Array.prototype.slice(start, end)
slice(parts, start, end) ==
  LET n == Len(parts)
      rel(x) == IF x < 0 THEN (IF n + x < 0 THEN 0 ELSE n + x)
                ELSE IF x > n THEN n ELSE x
  IN SubSeq(parts, rel(start) + 1, rel(end))

\* Array.prototype.join(' ')
join(parts) == Concat(JoinSp(parts))

\* parts.pop()
pop(parts) == SubSeq(parts, 1, Len(parts) - 1)

\* a line with fewer tokens than this is skipped
MinParts == 7

\* the CoreDumpInfo of a row whose status token sits at corefileIndex
rowInfo(parts, corefileIndex) ==
  LET signalIndex == corefileIndex - 1
      gidIndex == signalIndex - 1
      uidIndex == gidIndex - 1
      pidIndex == uidIndex - 1
      pid == At(parts, pidIndex)
      timestamp == join(slice(parts, 0, pidIndex))
  IN [id        |-> timestamp \o "-" \o pid,
      pid       |-> pid,
      uid       |-> At(parts, uidIndex),
      gid       |-> At(parts, gidIndex),
      signal    |-> At(parts, signalIndex),
      timestamp |-> timestamp,
      cmdline   |-> "",
      exe       |-> join(slice(parts, corefileIndex + 1, Len(parts))),
      hostname  |-> ""]

\* a status column taken by position when neither word is found
corefileIndexByPosition(parts) ==
  IF indexOf(parts, "missing") # -1 THEN indexOf(parts, "missing")
  ELSE IF indexOf(parts, "present") # -1 THEN indexOf(parts, "present")
  ELSE Len(parts) - 2

\* src/index.ts: the position of "missing", else that of "present"
corefileIndex(parts) ==
  IF indexOf(parts, "missing") # -1 THEN indexOf(parts, "missing")
  ELSE indexOf(parts, "present")

\* src/index.ts: the records of one line (none or one)
lineDumps(line) ==
  IF Trim(line) = <<>> THEN <<>>
  ELSE LET parts == splitWs(Trim(line)) IN
       IF Len(parts) < MinParts THEN <<>>
       ELSE IF corefileIndex(parts) = -1 THEN <<>>
       ELSE <<rowInfo(parts, corefileIndex(parts))>>

\* the loop over the lines of stdout.trim()
dumpsOfLines(stdout, perLine(_)) ==
  LET lines == splitLines(Trim(stdout))
      each == [k \in 1..Len(lines) |-> perLine(lines[k])]
  IN Flatten(each, 1, Len(lines))

\* src/index.ts: listCoredumps on the text the tool printed
tabularListCoredumps(stdout) == dumpsOfLines(stdout, lineDumps)

\* the revision that drops the size column: only rows marked present
presentLineDumps(line) ==
  IF Trim(line) = <<>> THEN <<>>
  ELSE LET parts == splitWs(Trim(line)) IN
       IF Len(parts) < MinParts THEN <<>>
       ELSE LET rest == pop(parts) IN
            IF indexOf(rest, "present") = -1 THEN <<>>
            ELSE <<rowInfo(rest, indexOf(rest, "present"))>>

presentListCoredumps(stdout) == dumpsOfLines(stdout, presentLineDumps)

\* line.includes('TIME'): text atoms are opaque, the one that holds TIME is
\* the heading of the first column
includesTIME(line) == \E i \in 1..Len(line) : line[i] = "TIME"

\* parts.findIndex(p => p === "missing" || p === "present")
findIndexStatus(parts) ==
  IF \E i \in 1..Len(parts) : parts[i] \in {"missing", "present"}
  THEN (CHOOSE i \in 1..Len(parts) :
          /\ parts[i] \in {"missing", "present"}
          /\ \A j \in 1..(i - 1) : parts[j] \notin {"missing", "present"}) - 1
  ELSE -1

\* the parsing test: the records of one line
testLineDumps(line) ==
  IF Trim(line) = <<>> \/ includesTIME(line) THEN <<>>
  ELSE LET parts == splitWs(Trim(line)) IN
       IF Len(parts) < MinParts THEN <<>>
       ELSE LET rest == pop(parts) IN
            IF findIndexStatus(rest) = -1 THEN <<>>
            ELSE <<rowInfo(rest, findIndexStatus(rest))>>

\* the parsing test: parseCoredumpctlOutput(stdout)
parseCoredumpctlOutput(stdout) == dumpsOfLines(stdout, testLineDumps)

(***************************************************************************)
(* The manager (SystemdCoredumpManager) under requests handled one at a    *)
(* time (spec 5): every action is one whole request.                       *)
(*   coredumps : the Map from id to CoreDumpInfo                           *)
(*   journal   : the pool dumps the system currently holds                 *)
(*   files     : the paths that exist on disk                              *)
(*   last      : the last request, the external commands it ran and what   *)
(*               it answered                                               *)
(***************************************************************************)
NoCalls == [list |-> 0, info |-> 0, dump |-> 0, delete |-> 0, gdb |-> 0]

\* the id a listing gives dump i
IdOf(i) == toLocaleString(TimeOf(i) \div 1000) \o "-" \o toString(PidOf(i))

\* the ids a request may name: those of the pool and one no dump ever has
RequestIds == {IdOf(i) : i \in Pool} \cup {"1/1/1970, 12:00:00 AM-1"}

OutputPath == "/home/user/core.dump"

gdbCommandFile == "/tmp/gdb-commands.txt"

tempCorePath(pid) == "/tmp/core-" \o pid \o "-temp.dump"

\* the ids of a list of records
IdsOf(dumps) == [k \in 1..Len(dumps) |-> dumps[k].id]

\* records of the mapping that carry more than the listing gave them
Touched(map) ==
  {k \in DOMAIN map :
     map[k].coredump # NoPath \/ map[k].cmdline # "" \/ map[k].hostname # ""}

\* The getStackTrace invocations that may be in flight at once, and the state
\* of one that is not running: the command it awaits (pc), its id, its
\* tempCorePath, the dump path it gave the debugger, whether no other
\* invocation was in flight during it (alone), and the files its debugger was
\* given that were no longer there (lost).
Invocations == {1, 2}

NoInvocation ==
  [pc |-> "idle", id |-> "", temp |-> NoPath, core |-> NoPath,
   alone |-> TRUE, lost |-> {}]

Init ==
  /\ coredumps = EmptyMap
  /\ journal \in SUBSET Pool
  /\ files = {}
  /\ last = [op |-> "none", id |-> "", onlyPresent |-> FALSE, result |-> "ok",
             calls |-> NoCalls, ret |-> <<>>, hit |-> FALSE, dirty |-> FALSE,
             message |-> <<>>, core |-> NoPath, stale |-> FALSE]
  /\ pure = [op |-> "none", input |-> [kind |-> "none"], out |-> <<>>]
  /\ running = [p \in Invocations |-> NoInvocation]

\* what listCoredumps makes of the listing of each journal (a table, so that
\* each listing is parsed once)
listingOf ==
  [J \in {S : S \in SUBSET Pool} |->
     [st \in Styles |->
        [onlyPresent \in BOOLEAN |->
           parseListing(RenderListing(EntriesOf(J), st), onlyPresent)]]]

\* the outcomes of the listing command that matter to a lookup of id: none
\* when id is cached
ListChoices(id) ==
  IF id \in DOMAIN coredumps
  THEN {<<TRUE, CHOOSE st \in ToolStyles : TRUE>>}
  ELSE BOOLEAN \X ToolStyles

\* error.message of a failed external command (execa)
ToolError(cmd) == "Command failed: " \o cmd

\* error.message of the TypeError of a call on undefined
TypeErrorText == "Cannot read properties of undefined (reading 'toString')"

\* The message of an McpError, as the pieces its template literal joins.
ListFailure(text) == <<"Failed to list coredumps: ", text>>

\* error.message of an McpError thrown with this code and message
McpMessage(code, message) == <<"MCP error ", code, ": ">> \o message

\* what a completed listCoredumps leaves: its result, the mapping, the list
Listed(r) ==
  [result |-> r.result, map |-> r.map, dumps |-> r.dumps,
   message |-> IF r.result = "ok" THEN <<>> ELSE ListFailure(TypeErrorText)]

\* a listCoredumps without the clear() that precedes the loop: the records
\* of the listing are set into the mapping as it was
doListMerging(onlyPresent, toolOk, st) ==
  IF ~toolOk
  THEN [result |-> "InternalError", map |-> coredumps, dumps |-> <<>>,
        message |-> ListFailure(ToolError("coredumpctl list"))]
  ELSE [result |-> listingOf[journal][st][onlyPresent].result,
        dumps  |-> listingOf[journal][st][onlyPresent].dumps,
        message |-> <<>>,
        map    |-> [k \in DOMAIN coredumps \cup DOMAIN listingOf[journal][st][onlyPresent].map |->
                      IF k \in DOMAIN listingOf[journal][st][onlyPresent].map
                      THEN listingOf[journal][st][onlyPresent].map[k]
                      ELSE coredumps[k]]]

\* listCoredumps(onlyPresent) against the current journal: toolOk tells
\* whether the listing command succeeds, st what it prints
doList(onlyPresent, toolOk, st) ==
  IF ~toolOk
  THEN [result |-> "InternalError", map |-> coredumps, dumps |-> <<>>,
        message |-> ListFailure(ToolError("coredumpctl list"))]
  ELSE Listed(listingOf[journal][st][onlyPresent])

\* an error kind of its own for an unknown id
NotFoundKind == "NotFound"

\* the error thrown when the id is still unknown after the refresh
NotFound == "InvalidParams"

\* the second lookup, after the listing r
lookupAgain(id, r) ==
  [result |-> IF r.result # "ok" THEN "InternalError"
              ELSE IF id \in DOMAIN r.map THEN "ok"
              ELSE NotFound,
   message |-> IF r.result # "ok" THEN r.message
               ELSE IF id \in DOMAIN r.map THEN <<>>
               ELSE <<"Coredump with ID ", id, " not found">>,
   map |-> r.map, lists |-> 1]

\* a refresh that lists the present dumps only
refreshPresent(toolOk, st) == doList(TRUE, toolOk, st)

\* the refresh of a lookup, `await this.listCoredumps()`: onlyPresent takes its
\* default, false
refresh(toolOk, st) == doList(FALSE, toolOk, st)

\* a lookup that refreshes whether or not the id is cached
resolveAlways(id, toolOk, st) == lookupAgain(id, refresh(toolOk, st))

\* the lookup that opens getCoredumpInfo, extractCoredump, removeCoredump and
\* getStackTrace: on a miss, listCoredumps() and a second lookup
resolve(id, toolOk, st) ==
  IF id \in DOMAIN coredumps
  THEN [result |-> "ok", message |-> <<>>, map |-> coredumps, lists |-> 0]
  ELSE lookupAgain(id, refresh(toolOk, st))

Answer(op, id, result, calls, ret) ==
  [op |-> op, id |-> id, onlyPresent |-> FALSE, result |-> result, calls |-> calls,
   ret |-> ret, hit |-> id \in DOMAIN coredumps, dirty |-> Touched(coredumps) # {},
   message |-> <<>>, core |-> NoPath, stale |-> FALSE]

\* the request failed with an McpError of this kind and message
Failed(op, id, kind, calls, message) ==
  [Answer(op, id, kind, calls, <<>>) EXCEPT !.message = message]

ListAnswered(onlyPresent, r) ==
    /\ coredumps' = r.map
    /\ last' = [Answer("listCoredumps", "", r.result, [NoCalls EXCEPT !.list = 1],
                       IdsOf(r.dumps))
                  EXCEPT !.onlyPresent = onlyPresent, !.message = r.message]
    /\ UNCHANGED <<journal, files, pure, running>>

\* a request list_coredumps / list-resources: listCoredumps(onlyPresent)
ListCoredumps(onlyPresent) ==
  \E toolOk \in BOOLEAN, st \in ToolStyles :
    ListAnswered(onlyPresent, doList(onlyPresent, toolOk, st))

\* What `coredumpctl info <pid>` can print: a list of lines, each line given
\* by the pieces its colons separate.
InfoOutputs ==
  { << << <<SP, SP, "Timestamp">>, <<SP, "Sat", SP, "01">>, <<"50">>, <<"45">> >>,
       << <<SP, SP, "Command Line">>, <<SP, "/opt/my", SP, "app", SP, "--display=">>, <<"0">> >>,
       << <<SP, SP, "Hostname">>, <<SP, "myhost">> >>,
       << <<SP, SP, "Message">> >> >> }

\* line.split(':', 2).map(part => part.trim()): the key and the value of a line
\* ("undefined" stands for the undefined value of a line without a colon)
KeyOf(line) == Concat(Trim(line[1]))
ValueOf(line) == IF Len(line) >= 2 THEN Concat(Trim(line[2])) ELSE "undefined"

\* the loop over the lines of the info output
RECURSIVE ApplyInfo(_, _)
ApplyInfo(rec, lines) ==
  IF lines = <<>> THEN rec
  ELSE LET line == Head(lines)
           rec2 == IF KeyOf(line) = "Command Line"
                   THEN [rec EXCEPT !.cmdline = ValueOf(line)]
                   ELSE IF KeyOf(line) = "Hostname"
                   THEN [rec EXCEPT !.hostname = ValueOf(line)]
                   ELSE rec
       IN ApplyInfo(rec2, Tail(lines))

\* the journal holds a dump of this pid
HasPid(pid) == \E i \in journal : toString(PidOf(i)) = pid

\* the journal holds a dump of this pid whose core file is still on disk
HasCore(pid) == \E i \in journal : toString(PidOf(i)) = pid /\ CorefileOf(i) = "present"

\* getCoredumpInfo(id).  infoOk tells whether `coredumpctl info` succeeds.
InfoResolved(id, r) ==
    LET c0 == [NoCalls EXCEPT !.list = r.lists]
    IN
    /\ UNCHANGED <<journal, files, pure, running>>
    /\ IF r.result # "ok"
       THEN /\ coredumps' = r.map
            /\ last' = Failed("getCoredumpInfo", id, r.result, c0, r.message)
       ELSE \E infoOk \in BOOLEAN, out \in InfoOutputs :
              IF ~(infoOk /\ HasPid(r.map[id].pid))
              THEN /\ coredumps' = r.map
                   /\ last' = Failed("getCoredumpInfo", id, "InternalError",
                                     [c0 EXCEPT !.info = 1],
                                     <<"Failed to get coredump info: ",
                                       ToolError("coredumpctl info")>>)
              ELSE /\ coredumps' = [r.map EXCEPT ![id] = ApplyInfo(r.map[id], out)]
                   /\ last' = Answer("getCoredumpInfo", id, "ok",
                                     [c0 EXCEPT !.info = 1], <<id>>)

GetCoredumpInfo(id) ==
  \E lc \in ListChoices(id) : InfoResolved(id, resolve(id, lc[1], lc[2]))

\* the message of the McpError of a failed `coredumpctl dump`
ExtractFailure == <<"Failed to extract coredump: ", ToolError("coredumpctl dump")>>

\* coredump.coredump = outputPath, on the record the mapping holds for id
extractedNowhere(map, id, outputPath) == map

extracted(map, id, outputPath) == [map EXCEPT ![id].coredump = outputPath]

\* extractCoredump(id, outputPath).  dumpOk tells whether `coredumpctl dump`
\* succeeds.
ExtractResolved(id, outputPath, r) ==
    LET c0 == [NoCalls EXCEPT !.list = r.lists]
    IN
    /\ UNCHANGED <<journal, pure, running>>
    /\ IF r.result # "ok"
       THEN /\ coredumps' = r.map
            /\ files' = files
            /\ last' = Failed("extractCoredump", id, r.result, c0, r.message)
       ELSE \E dumpOk \in BOOLEAN :
              IF ~(dumpOk /\ HasCore(r.map[id].pid))
              THEN /\ coredumps' = r.map
                   /\ files' = files
                   /\ last' = Failed("extractCoredump", id, "InternalError",
                                     [c0 EXCEPT !.dump = 1], ExtractFailure)
              ELSE /\ coredumps' = extracted(r.map, id, outputPath)
                   /\ files' = files \cup {outputPath}
                   /\ last' = Answer("extractCoredump", id, "ok",
                                     [c0 EXCEPT !.dump = 1], <<outputPath>>)

ExtractCoredump(id, outputPath) ==
  \E lc \in ListChoices(id) : ExtractResolved(id, outputPath, resolve(id, lc[1], lc[2]))

\* a function without the key k
WithoutAll(map, k) == [x \in {} |-> map[x]]

Without(map, k) == [x \in DOMAIN map \ {k} |-> map[x]]

\* removeCoredump(id).  deleteOk tells whether `coredumpctl delete` succeeds.
RemoveResolved(id, r) ==
    LET c0 == [NoCalls EXCEPT !.list = r.lists]
    IN
    /\ UNCHANGED <<files, pure, running>>
    /\ IF r.result # "ok"
       THEN /\ coredumps' = r.map
            /\ journal' = journal
            /\ last' = Failed("removeCoredump", id, r.result, c0, r.message)
       ELSE \E deleteOk \in BOOLEAN :
              IF ~(deleteOk /\ HasPid(r.map[id].pid))
              THEN /\ coredumps' = r.map
                   /\ journal' = journal
                   /\ last' = Failed("removeCoredump", id, "InternalError",
                                     [c0 EXCEPT !.delete = 1],
                                     <<"Failed to remove coredump: ",
                                       ToolError("coredumpctl delete")>>)
              ELSE /\ coredumps' = Without(r.map, id)
                   /\ journal' = {i \in journal : toString(PidOf(i)) # r.map[id].pid}
                   /\ last' = Answer("removeCoredump", id, "ok",
                                     [c0 EXCEPT !.delete = 1], <<"true">>)

RemoveCoredump(id) ==
  \E lc \in ListChoices(id) : RemoveResolved(id, resolve(id, lc[1], lc[2]))

\* What the steps of getStackTrace after the lookup can come to: the
\* extraction fails, the writing of the command file fails, the debugger
\* fails, or all succeed.  rm -f does not fail.
TraceOutcomes(extract) ==
  (IF extract THEN {"dump"} ELSE {}) \cup {"sh", "gdb", "ok"}

\* the message of the McpError the catch block of getStackTrace throws
TraceFailure(message) == <<"Failed to get stack trace: ">> \o message

\* the request ran the debugger on the dump file core
Debugged(id, result, calls, message, core, fs) ==
  [Failed("getStackTrace", id, result, calls, message)
     EXCEPT !.core = core, !.stale = core \notin fs]

\* a cleanup that removes the dump file the debugger was given, whoever made it
removedCore(fs, temp, core) == fs \ {core}

\* the files after `if (tempCorePath) rm -f tempCorePath`: temp is the
\* tempCorePath of the request (NoPath for null), core the path of the record
removed(fs, temp, core) == IF temp # NoPath THEN fs \ {temp} ELSE fs

\* getStackTrace(id) once the lookup has given r
TraceResolved(id, r) ==
    LET c0 == [NoCalls EXCEPT !.list = r.lists]
    IN
    /\ UNCHANGED <<journal, pure, running>>
    /\ IF r.result # "ok"
       THEN /\ coredumps' = r.map
            /\ files' = files
            /\ last' = Failed("getStackTrace", id, r.result, c0, r.message)
       ELSE
         LET rec == r.map[id]
             extract == rec.coredump = NoPath
             tmp == tempCorePath(rec.pid)
             c1 == IF extract THEN [c0 EXCEPT !.dump = 1] ELSE c0
             \* the nested extractCoredump(id, tempCorePath): id is in the mapping
             map1 == IF extract THEN extracted(r.map, id, tmp) ELSE r.map
             files1 == IF extract THEN files \cup {tmp} ELSE files
             \* the catch block removes the temporary dump file only
             caught(fs) == removed(fs, IF extract THEN tmp ELSE NoPath, map1[id].coredump)
         IN
         \E outcome \in TraceOutcomes(extract) :
           IF outcome = "dump" \/ (extract /\ ~HasCore(rec.pid))
           THEN /\ coredumps' = r.map
                /\ files' = caught(files)
                /\ last' = Failed("getStackTrace", id, "InternalError", c1,
                                  TraceFailure(McpMessage("-32603", ExtractFailure)))
           ELSE IF outcome = "sh"
           THEN /\ coredumps' = map1
                /\ files' = caught(files1)
                /\ last' = Failed("getStackTrace", id, "InternalError", c1,
                                  TraceFailure(<<ToolError("bash")>>))
           ELSE IF outcome = "gdb"
           THEN /\ coredumps' = map1
                /\ files' = caught(files1 \cup {gdbCommandFile})
                /\ last' = Debugged(id, "InternalError", [c1 EXCEPT !.gdb = 1],
                                    TraceFailure(<<ToolError("gdb")>>),
                                    map1[id].coredump, files1)
           ELSE /\ coredumps' = map1
                /\ files' = caught(files1 \cup {gdbCommandFile}) \ {gdbCommandFile}
                /\ last' = Debugged(id, "ok", [c1 EXCEPT !.gdb = 1], <<>>,
                                    map1[id].coredump, files1)

GetStackTrace(id) ==
  \E lc \in ListChoices(id) : TraceResolved(id, resolve(id, lc[1], lc[2]))

\* the system records a new dump, or drops one from its journal
Crash(i) ==
  /\ i \notin journal
  /\ journal' = journal \cup {i}
  /\ UNCHANGED <<coredumps, files, last, pure, running>>

Vacuum(i) ==
  /\ i \in journal
  /\ journal' = journal \ {i}
  /\ UNCHANGED <<coredumps, files, last, pure, running>>

(***************************************************************************)
(* The parsers on their own: a listing text is drawn, then one of the      *)
(* parsers is applied to it.                                               *)
(*   pure : the parser applied (op), what it was applied to (input) and    *)
(*          what it gave (out)                                             *)
(***************************************************************************)
MaxRows == 2
MaxList == 2

\* the sequences over S of length at most n
SeqsUpTo(S, n) == UNION {[1..k -> S] : k \in 0..n}

\* Rows of a tabular listing by their columns (size "": a tool without the
\* SIZE column).  The first is the row of the parsing test.
DataRows ==
  << [ts |-> <<"Sat", "2023-06-17", "01:50:45", "JST">>, pid |-> "2465",
      uid |-> "1000", gid |-> "100", signal |-> "SIGABRT", status |-> "present",
      exe |-> <<"/usr/bin/cuteime">>, size |-> "1.5M"],
     [ts |-> <<"Sun", "2023-06-18", "02:10:00", "JST">>, pid |-> "2466",
      uid |-> "0", gid |-> "0", signal |-> "SIGSEGV", status |-> "missing",
      exe |-> <<"/opt/my", "app">>, size |-> "-"],
     [ts |-> <<"Mon", "2023-06-19", "03:00:00", "JST">>, pid |-> "2467",
      uid |-> "1000", gid |-> "100", signal |-> "SIGILL", status |-> "present",
      exe |-> <<"/usr/bin/foo">>, size |-> ""],
     [ts |-> <<"Tue", "2023-06-20", "04:00:00", "JST">>, pid |-> "2468",
      uid |-> "1000", gid |-> "100", signal |-> "SIGBUS", status |-> "inaccessible",
      exe |-> <<"/usr/bin/bar">>, size |-> "2.1M"],
     [ts |-> <<"Wed">>, pid |-> "2469",
      uid |-> "1000", gid |-> "100", signal |-> "SIGFPE", status |-> "present",
      exe |-> <<>>, size |-> ""] >>

\* Other lines the tool prints: a notice, the legend, a blank line
OtherLines ==
  << <<"No", SP, "coredumps", SP, "found.">>,
     <<"TIME", SP, SP, "PID", SP, "UID", SP, "GID", SP, "SIG", SP, "COREFILE", SP,
       "EXE", SP, "SIZE">>,
     <<SP, SP>> >>

RowPool == 1..(Len(DataRows) + Len(OtherLines))

IsData(k) == k <= Len(DataRows)

\* the line of a row, laid out in columns
RenderRow(r) ==
  JoinSp(r.ts) \o <<SP, SP, SP, SP, r.pid, SP, r.uid, SP, SP, r.gid, SP, r.signal, SP,
                    r.status, SP, SP>>
    \o JoinSp(r.exe) \o (IF r.size = "" THEN <<>> ELSE <<SP, r.size>>)

RowLine(k) == IF IsData(k) THEN RenderRow(DataRows[k]) ELSE OtherLines[k - Len(DataRows)]

\* the text of a tabular listing
RenderTable(rows) ==
  <<NL>> \o Flatten([k \in 1..Len(rows) |-> RowLine(rows[k]) \o <<NL>>], 1, Len(rows))

NoStyle == [commas |-> TRUE, quoted |-> TRUE, pretty |-> TRUE]

\* no entry of the listing lacks a field
NoLack == [pos |-> 0, key |-> ""]

\* the fields an entry of a listing may come without
LackKeys == {"time", "pid", "uid", "gid"}

\* What the listing command may print that is no listing: a notice, a
\* listing cut short, a braced word, nothing at all.
RawTexts ==
  << <<"No", SP, "coredumps", SP, "found.">>,
     <<"[", NL, TAB, "{", NL, TAB, TAB, QUOTE, "time", QUOTE, SP, ":", SP, "45500000", ",">>,
     <<"{", "oops", "}">>,
     <<>> >>

NoInput ==
  [kind |-> "none", rows |-> <<>>, list |-> <<>>, style |-> NoStyle,
   onlyPresent |-> FALSE, sig |-> 0, lacks |-> NoLack, raw |-> 0,
   corePattern |-> <<>>, ulimitOutput |-> <<>>, enabled |-> FALSE, failing |-> 0]

TabularInput(rows) == [NoInput EXCEPT !.kind = "tabular", !.rows = rows]

StructuredInput(list, st, onlyPresent) ==
  [NoInput EXCEPT !.kind = "structured", !.list = list, !.style = st,
                  !.onlyPresent = onlyPresent]

\* a listing whose entry at pos comes without the field key
LackingInput(list, st, onlyPresent, pos, key) ==
  [StructuredInput(list, st, onlyPresent) EXCEPT !.lacks = [pos |-> pos, key |-> key]]

\* the listing command prints the text RawTexts[r]
RawInput(r, onlyPresent) ==
  [NoInput EXCEPT !.kind = "structured", !.raw = r, !.onlyPresent = onlyPresent]

SignalInput(n) == [NoInput EXCEPT !.kind = "signal", !.sig = n]

(***************************************************************************)
(* The core dump configuration: getCoreDumpConfig and setCoreDumpEnabled.  *)
(* A text is a sequence of symbols; "|" and "systemd-coredump" are symbols *)
(* of a core pattern.                                                      *)
(***************************************************************************)
\* String.prototype.startsWith for a one-symbol prefix
startsWith(t, s) == t # <<>> /\ t[1] = s

\* String.prototype.includes for a one-symbol text
includes(t, s) == \E k \in 1..Len(t) : t[k] = s

systemdHandledAnywhere(corePattern) == includes(corePattern, "systemd-coredump")

systemdHandled(corePattern) ==
  startsWith(Trim(corePattern), "|") /\ includes(corePattern, "systemd-coredump")

enabled(corePattern, coreSizeLimit) ==
  /\ coreSizeLimit # <<"0">>
  /\ systemdHandled(corePattern) \/ ~startsWith(Trim(corePattern), "|")

\* the commands getCoreDumpConfig runs, in order
ConfigCommands == <<"cat /proc/sys/kernel/core_pattern", "ulimit -c">>

\* getCoreDumpConfig() when the two commands print corePattern and
\* ulimitOutput; failing is the position of the command that fails, 0 if
\* none does.
getCoreDumpConfig(corePattern, ulimitOutput, failing) ==
  IF failing \in 1..Len(ConfigCommands)
  THEN [result |-> "InternalError",
        message |-> <<"Failed to get core dump configuration: ",
                      ToolError(ConfigCommands[failing])>>,
        ran |-> SubSeq(ConfigCommands, 1, failing),
        ret |-> <<>>]
  ELSE [result |-> "ok", message |-> <<>>, ran |-> ConfigCommands,
        ret |-> <<[enabled |-> enabled(corePattern, Trim(ulimitOutput)),
                   corePattern |-> Trim(corePattern),
                   coreSizeLimit |-> Trim(ulimitOutput),
                   systemdHandled |-> systemdHandled(corePattern)]>>]

limitValueSwapped(e) == IF e THEN "0" ELSE "unlimited"

limitValue(e) == IF e THEN "unlimited" ELSE "0"

\* the two ulimit commands of setCoreDumpEnabled
LimitCommands(e) == <<"ulimit -c " \o limitValue(e), "ulimit -S -c " \o limitValue(e)>>

\* the McpError of the catch block of setCoreDumpEnabled
EnableFailure(e, ran, message) ==
  [result |-> "InternalError",
   message |-> <<"Failed to ", IF e THEN "enable" ELSE "disable", " core dumps: ">>
                 \o message,
   ran |-> ran, ret |-> <<>>]

\* setCoreDumpEnabled from the second reading of the configuration on
Verified(e, ran, newConfig) ==
  IF newConfig.result # "ok"
  THEN EnableFailure(e, ran \o newConfig.ran, McpMessage("-32603", newConfig.message))
  ELSE [result |-> "ok", message |-> <<>>, ran |-> ran \o newConfig.ran,
        ret |-> <<newConfig.ret[1].enabled = e>>]

\* setCoreDumpEnabled from the ulimit commands on.  Each runs in a shell of
\* its own, so the limit the second reading sees is the server's own.
Limited(e, ran, corePattern, ulimitOutput, failing) ==
  IF failing \in 1..2
  THEN EnableFailure(e, ran \o SubSeq(LimitCommands(e), 1, failing),
                     <<ToolError(LimitCommands(e)[failing])>>)
  ELSE Verified(e, ran \o LimitCommands(e),
                getCoreDumpConfig(corePattern, ulimitOutput,
                                  IF failing = 0 THEN 0 ELSE failing - 2))

\* setCoreDumpEnabled(e); failing is the position, among the six commands
\* of the call, of the one that fails, 0 if none does.
setCoreDumpEnabledWith(e, currentConfig, corePattern, ulimitOutput, failing) ==
  IF currentConfig.result # "ok"
  THEN EnableFailure(e, currentConfig.ran, McpMessage("-32603", currentConfig.message))
  ELSE Limited(e, currentConfig.ran, corePattern, ulimitOutput,
               IF failing = 0 THEN 0 ELSE failing - 2)

setCoreDumpEnabled(e, corePattern, ulimitOutput, failing) ==
  setCoreDumpEnabledWith(e, getCoreDumpConfig(corePattern, ulimitOutput, failing),
                         corePattern, ulimitOutput, failing)

MaxPattern == 3

\* lines of a debugger output
MaxLines == 2

\* core patterns: a file name, a pipe to systemd-coredump, a pipe to
\* another handler, the name systemd-coredump outside a pipe, blanks around
CorePatterns == SeqsUpTo({"|", SP, "systemd-coredump", "core"}, MaxPattern)

\* what `ulimit -c` prints
UlimitOutputs == {<<"0">>, <<"unlimited">>, <<"1024">>}

\* the patterns setCoreDumpEnabled is tried on
FewPatterns ==
  {<<"core">>, <<"|", "systemd-coredump">>, <<"|", "core">>, <<>>}

ConfigInput(corePattern, ulimitOutput, failing) ==
  [NoInput EXCEPT !.kind = "config", !.corePattern = corePattern,
                  !.ulimitOutput = ulimitOutput, !.failing = failing]

EnableInput(e, corePattern, ulimitOutput, failing) ==
  [NoInput EXCEPT !.kind = "enable", !.enabled = e, !.corePattern = corePattern,
                  !.ulimitOutput = ulimitOutput, !.failing = failing]

Inputs ==
  {TabularInput(rows) : rows \in SeqsUpTo(RowPool, MaxRows)}
    \cup {StructuredInput(x[1], x[2], x[3]) :
            x \in SeqsUpTo(Pool, MaxList) \X Styles \X BOOLEAN}
    \cup {LackingInput(x[1], x[2], x[3], x[4], x[5]) :
            x \in {y \in SeqsUpTo(Pool, MaxList) \X Styles \X BOOLEAN
                             \X (1..MaxList) \X LackKeys : y[4] <= Len(y[1])}}
    \cup {RawInput(r, onlyPresent) : r \in 1..Len(RawTexts), onlyPresent \in BOOLEAN}
    \cup {SignalInput(n) : n \in 0..MaxSig}
    \cup {[NoInput EXCEPT !.kind = "trace", !.rows = x[1], !.sig = SigOf(x[2])] :
            x \in SeqsUpTo(1..7, MaxLines) \X {1}}
    \cup {ConfigInput(x[1], x[2], x[3]) :
            x \in CorePatterns \X UlimitOutputs \X (0..Len(ConfigCommands))}
    \cup {EnableInput(x[1], x[2], x[3], x[4]) :
            x \in BOOLEAN \X FewPatterns \X UlimitOutputs
                    \X (0..(2 * Len(ConfigCommands) + 2))}

\* the entries of a structured input
InputEntries(in) ==
  [k \in 1..Len(in.list) |->
     IF k = in.lacks.pos
     THEN [DumpEntry(in.list[k]) EXCEPT !.lacks = {in.lacks.key}]
     ELSE DumpEntry(in.list[k])]

\* the text of a structured input
TextOf(in) ==
  IF in.raw # 0 THEN RawTexts[in.raw] ELSE RenderListing(InputEntries(in), in.style)

InitParse ==
  /\ coredumps = EmptyMap
  /\ journal = {}
  /\ files = {}
  /\ last = [op |-> "none", id |-> "", onlyPresent |-> FALSE, result |-> "ok",
             calls |-> NoCalls, ret |-> <<>>, hit |-> FALSE, dirty |-> FALSE,
             message |-> <<>>, core |-> NoPath, stale |-> FALSE]
  /\ \E in \in Inputs : pure = [op |-> "input", input |-> in, out |-> <<>>]
  /\ running = [p \in Invocations |-> NoInvocation]

Apply(kind, op, out) ==
  /\ pure.op = "input"
  /\ pure.input.kind = kind
  /\ pure' = [pure EXCEPT !.op = op, !.out = out]
  /\ UNCHANGED <<coredumps, journal, files, last, running>>

\* src/index.ts listCoredumps
TabularList ==
  Apply("tabular", "tabularListCoredumps",
        tabularListCoredumps(RenderTable(pure.input.rows)))

\* the listCoredumps that keeps present rows only
PresentList ==
  Apply("tabular", "presentListCoredumps",
        presentListCoredumps(RenderTable(pure.input.rows)))

\* the parsing test
TestParse ==
  Apply("tabular", "parseCoredumpctlOutput",
        parseCoredumpctlOutput(RenderTable(pure.input.rows)))

\* listCoredumps(onlyPresent) of the structured mode on the tool's text
StructuredList ==
  Apply("structured", "listCoredumps",
        parseListing(TextOf(pure.input), pure.input.onlyPresent))

\* the repair step alone: its text after one and after two applications,
\* what decodes from the repaired text and what decodes from the text as it is
Repair ==
  /\ ~pure.input.onlyPresent
  /\ Apply("structured", "correctedJson",
           [once   |-> correctedJson(TextOf(pure.input)),
            twice  |-> correctedJson(correctedJson(TextOf(pure.input))),
            decoded |-> JSONparse(correctedJson(TextOf(pure.input))),
            direct |-> JSONparse(TextOf(pure.input))])

\* the switch on entry.sig
SignalName ==
  Apply("signal", "signalName", signalName(NumVal(pure.input.sig)))

(***************************************************************************)
(* The resource handlers: the locators ListResources emits and the id      *)
(* ReadResource takes from a locator.                                      *)
(***************************************************************************)
\* The characters of new Date(ms).toLocaleString(), cut where a locator is
\* sensitive: at '/', ',', ':' and the blank.
localeChars(ms) ==
  <<"1", "/", toString(1 + (ms \div 1000) \div 86400), "/", "1970", ",", SP,
    toString(IF ((ms \div 1000) \div 3600) % 12 = 0 THEN 12
             ELSE ((ms \div 1000) \div 3600) % 12),
    ":", Pad2(((ms \div 1000) \div 60) % 60), ":", Pad2((ms \div 1000) % 60), SP,
    IF ((ms \div 1000) \div 3600) % 24 < 12 THEN "AM" ELSE "PM">>

\* the timestamps an id can begin with, by their characters
StampTexts ==
  {localeChars(TimeOf(i) \div 1000) : i \in Pool} \cup {<<"Invalid", SP, "Date">>}

\* the ids of the listings, by their characters
IdTexts ==
  {t \o <<"-", pid>> : t \in StampTexts, pid \in {toString(PidOf(i)) : i \in Pool}}
    \cup {localeChars(0) \o <<"-", "1">>, <<"undefined">>}

\* the characters of the string id
Chars(id) == CHOOSE t \in IdTexts : Concat(t) = id

\* `coredump:///${dump.id}` and `stacktrace:///${dump.id}`
uriOf(scheme, id) == <<scheme, ":", "/", "/", "/">> \o Chars(id)

\* the first position from k on of a character of the set, past the end if none
RECURSIVE FirstOf(_, _, _)
FirstOf(t, k, set) ==
  IF k > Len(t) THEN k ELSE IF t[k] \in set THEN k ELSE FirstOf(t, k + 1, set)

\* the path percent-encode set of the URL standard, on the characters of
\* the model
percentEncode(c) ==
  IF c = SP THEN "%20"
  ELSE IF c = QUOTE THEN "%22"
  ELSE IF c = "{" THEN "%7B"
  ELSE IF c = "}" THEN "%7D"
  ELSE c

\* the path of a URL whose path begins at position k: up to the query or
\* the fragment, percent-encoded
PathFrom(t, k) ==
  [j \in 1..(FirstOf(t, k, {"?", "#"}) - k) |-> percentEncode(t[k + j - 1])]

\* new URL(uri).pathname for a scheme that is not special: after the scheme
\* and "//" comes the host, up to the next '/', '?' or '#', then the path
pathname(uri) ==
  IF Len(uri) >= 4 /\ uri[2] = ":" /\ uri[3] = "/" /\ uri[4] = "/"
  THEN PathFrom(uri, FirstOf(uri, 5, {"/", "?", "#"}))
  ELSE PathFrom(uri, 3)

\* .replace(/^\//, '')
dropSlash(t) == IF t # <<>> /\ Head(t) = "/" THEN Tail(t) ELSE t

\* the id taken from the path as it is
decodeNothing(t) == t

\* decodeURIComponent
decodeURIComponent(t) ==
  [k \in 1..Len(t) |->
     IF t[k] = "%20" THEN SP
     ELSE IF t[k] = "%22" THEN QUOTE
     ELSE IF t[k] = "%7B" THEN "{"
     ELSE IF t[k] = "%7D" THEN "}"
     ELSE t[k]]

\* the id the ReadResource handler passes to the manager
requestId(uri) == Concat(decodeURIComponent(dropSlash(pathname(uri))))

\* one resource of ListResources read back by ReadResource
readBack(scheme, id) ==
  [uri |-> uriOf(scheme, id),
   pathname |-> pathname(uriOf(scheme, id)),
   id |-> requestId(uriOf(scheme, id))]

\* the resources of one family for the dumps listed
familyOf(scheme, mimeType, dumps) ==
  [k \in 1..Len(dumps) |->
     [uri |-> uriOf(scheme, dumps[k].id), mimeType |-> mimeType]]

\* the coredump family alone
resourcesForCoredumps(dumps) == familyOf("coredump", "application/json", dumps)

\* resources: [...coredumpResources, ...stacktraceResources]
resourcesFor(dumps) ==
  familyOf("coredump", "application/json", dumps)
    \o familyOf("stacktrace", "text/plain", dumps)

\* ListResources: the locators of listCoredumps(true); ReadResource on each
resourcesOf(r) ==
  [listed |-> r,
   resources |-> resourcesFor(r.dumps),
   coredump   |-> [k \in 1..Len(r.dumps) |-> readBack("coredump", r.dumps[k].id)],
   stacktrace |-> [k \in 1..Len(r.dumps) |-> readBack("stacktrace", r.dumps[k].id)]]

\* the resources of a listing, each read back
ReadResources ==
  /\ pure.input.onlyPresent
  /\ Apply("structured", "readResource",
           resourcesOf(parseListing(TextOf(pure.input), TRUE)))

(***************************************************************************)
(* The parsing of the debugger's output in getStackTrace.  A line is a     *)
(* sequence of symbols: '#', '(', ')', ':' and the blank stand alone, a    *)
(* number, an address or a name is one symbol.                             *)
(***************************************************************************)
MaxLineNo == 50

\* symbols that match \d+
IsDigits(c) == c \in {toString(n) : n \in 0..MaxLineNo}

\* parseInt(c, 10) of a symbol that matches \d+
parseInt(c) == CHOOSE n \in 0..MaxLineNo : toString(n) = c

\* symbols that match [0-9xa-f]+
IsAddress(c) == IsDigits(c) \/ c \in {"0x00007f9b7c27d6b0", "0x000055d5a1b2c3d4"}

\* a line that matches neither pattern
NoMatch == [ok |-> FALSE]

\* /^Thread (\d+) \(.*\):/
threadMatch(line) ==
  IF /\ Len(line) >= 5
     /\ line[1] = "Thread" /\ line[2] = SP /\ IsDigits(line[3])
     /\ line[4] = SP /\ line[5] = "("
     /\ \E p \in 6..(Len(line) - 1) : line[p] = ")" /\ line[p + 1] = ":"
  THEN [ok |-> TRUE, threadId |-> line[3]]
  ELSE NoMatch

\* the literal ' in ' at position p
InAt(line, p) ==
  p + 2 <= Len(line) /\ line[p] = SP /\ line[p + 1] = "in" /\ line[p + 2] = SP

\* (?: at ([^:]+):(\d+))? after the closing parenthesis at c, added to the
\* frame matched so far
withLocation(line, c, q, frame) ==
  IF /\ c + 3 <= Len(line)
     /\ line[c + 1] = SP /\ line[c + 2] = "at" /\ line[c + 3] = SP
     /\ q > c + 4 /\ q + 1 <= Len(line) /\ IsDigits(line[q + 1])
  THEN [frame EXCEPT !.location = StrVal(Concat(SubSeq(line, c + 4, q - 1))),
                     !.line = StrVal(line[q + 1])]
  ELSE frame

\* ([^\(]+)\s*\(([^)]*)\) from position f on: j is the first '(' and c the
\* first ')' after it
withFunction(line, index, address, f, j, c) ==
  IF j > f /\ j <= Len(line) /\ c <= Len(line)
  THEN withLocation(line, c, FirstOf(line, c + 4, {":"}),
                    [ok |-> TRUE, index |-> parseInt(index), address |-> address,
                     function |-> Concat(Trim(SubSeq(line, f, j - 1))),
                     args |-> Concat(SubSeq(line, j + 1, c - 1)),
                     location |-> Undefined, line |-> Undefined])
  ELSE NoMatch

\* the frame pattern from the function name at f on
frameFrom(line, address, f) ==
  withFunction(line, line[2], address, f, FirstOf(line, f, {"("}),
               FirstOf(line, FirstOf(line, f, {"("}) + 1, {")"}))

\* \s+([0-9xa-f]+)? in  after the index; w is the end of the blanks that
\* follow the index.  With an address \s+ takes every blank; without one it
\* gives the last blank back to ' in '.
frameAfterIndex(line, w) ==
  IF w <= Len(line) /\ IsAddress(line[w]) /\ InAt(line, w + 1)
  THEN frameFrom(line, StrVal(line[w]), w + 4)
  ELSE IF w >= 5 /\ InAt(line, w - 1)
  THEN frameFrom(line, Undefined, w + 2)
  ELSE NoMatch

\* /^#(\d+)\s+([0-9xa-f]+)? in ([^\(]+)\s*\(([^)]*)\)(?: at ([^:]+):(\d+))?/
frameMatch(line) ==
  IF Len(line) >= 3 /\ line[1] = "#" /\ IsDigits(line[2]) /\ IsSpace(line[3])
  THEN frameAfterIndex(line, SkipWs(line, 3))
  ELSE NoMatch

\* frames.push({...}) of a matched line
frameOf(m) ==
  [index |-> m.index, address |-> m.address, function |-> m.function,
   args |-> m.args, location |-> m.location, line |-> m.line]

\* the loop over the lines of the debugger's output
RECURSIVE parseLines(_, _, _, _)
parseLines(lines, k, frames, currentThreadId) ==
  IF k > Len(lines) THEN [frames |-> frames, threadId |-> currentThreadId]
  ELSE IF threadMatch(lines[k]).ok
  THEN parseLines(lines, k + 1, frames, StrVal(threadMatch(lines[k]).threadId))
  ELSE IF frameMatch(lines[k]).ok
  THEN parseLines(lines, k + 1, Append(frames, frameOf(frameMatch(lines[k]))),
                  currentThreadId)
  ELSE parseLines(lines, k + 1, frames, currentThreadId)

\* what getStackTrace returns of the debugger's stdout for a record with
\* this signal
stackTraceOf(stdout, signal) ==
  [frames   |-> parseLines(splitLines(stdout), 1, <<>>, Undefined).frames,
   threadId |-> parseLines(splitLines(stdout), 1, <<>>, Undefined).threadId,
   signal   |-> signal]

\* Lines of the debugger's output.  frame tells whether the line is a frame
\* line; index and function are those it shows.
GdbLines ==
  << [text |-> <<"#", "0", SP, SP, "0x00007f9b7c27d6b0", SP, "in", SP, "__GI_raise", SP,
                 "(", "sig=sig@entry=6", ")", SP, "at", SP,
                 "../sysdeps/unix/sysv/linux/raise.c", ":", "50">>,
      frame |-> TRUE, index |-> 0, function |-> "__GI_raise", thread |-> ""],
     [text |-> <<"#", "1", SP, SP, "0x000055d5a1b2c3d4", SP, "in", SP, "main", SP,
                 "(", ")">>,
      frame |-> TRUE, index |-> 1, function |-> "main", thread |-> ""],
     [text |-> <<"#", "2", SP, SP, "main", SP, "(", "argc=1", ")", SP, "at", SP,
                 "t.c", ":", "5">>,
      frame |-> TRUE, index |-> 2, function |-> "main", thread |-> ""],
     [text |-> <<"#", "3", SP, "in", SP, "foo", SP, "(", ")">>,
      frame |-> TRUE, index |-> 3, function |-> "foo", thread |-> ""],
     [text |-> <<"#", "4", SP, SP, "in", SP, "bar", SP, "(", "x=1", ")">>,
      frame |-> TRUE, index |-> 4, function |-> "bar", thread |-> ""],
     [text |-> <<"Thread", SP, "1", SP, "(", "Thread", SP, "0x00007f9b7c27d6b0", SP,
                 "(", "LWP", SP, "7", ")", ")", ":">>,
      frame |-> FALSE, index |-> 0, function |-> "", thread |-> "1"],
     [text |-> <<"No", SP, "locals.">>,
      frame |-> FALSE, index |-> 0, function |-> "", thread |-> ""] >>

\* the debugger's stdout with these lines
RenderGdb(rows) ==
  Flatten([k \in 1..Len(rows) |->
             (IF k > 1 THEN <<NL>> ELSE <<>>) \o GdbLines[rows[k]].text], 1, Len(rows))

\* the parsing of getStackTrace on the debugger's output
StackTrace ==
  Apply("trace", "getStackTrace",
        stackTraceOf(RenderGdb(pure.input.rows), signalName(NumVal(pure.input.sig))))

\* getCoreDumpConfig()
GetCoreDumpConfig ==
  Apply("config", "getCoreDumpConfig",
        getCoreDumpConfig(pure.input.corePattern, pure.input.ulimitOutput,
                          pure.input.failing))

\* setCoreDumpEnabled(enabled)
SetCoreDumpEnabled ==
  Apply("enable", "setCoreDumpEnabled",
        setCoreDumpEnabled(pure.input.enabled, pure.input.corePattern,
                           pure.input.ulimitOutput, pure.input.failing))

NextParse ==
  \/ TabularList
  \/ PresentList
  \/ TestParse
  \/ StructuredList
  \/ Repair
  \/ SignalName
  \/ ReadResources
  \/ StackTrace
  \/ GetCoreDumpConfig
  \/ SetCoreDumpEnabled

SpecParse == InitParse /\ [][NextParse]_vars

(***************************************************************************)
(* The CallTool handler for the tools that take an id, and the manager     *)
(* with its handlers as one state machine.                                 *)
(***************************************************************************)
IdTools == {"get_coredump_info", "extract_coredump", "get_stacktrace"}

\* What request.params.arguments may hold under id: nothing or the empty
\* string.  With an id that is there the handler comes to the manager's
\* operation on that id, which is a step of its own below.
IdArguments == {Undefined, StrVal("")}

\* what request.params.arguments may hold under outputPath
PathArguments == {Undefined, StrVal(""), StrVal(OutputPath)}

\* decodeURIComponent(id) of the handler, on the string
decodedId(id) == Concat(decodeURIComponent(Chars(id)))

\* throw new McpError(ErrorCode.InvalidParams, text) of the handler
Rejected(name, text) ==
  /\ last' = Failed(name, "", "InvalidParams", NoCalls, <<text>>)
  /\ UNCHANGED <<coredumps, journal, files, pure, running>>

\* the handler from the test of its arguments on; id and outputPath are
\* String(request.params.arguments?.id) and String(...?.outputPath)
Dispatched(name, id, outputPath) ==
  IF name = "get_coredump_info"
  THEN IF id = "" THEN Rejected(name, "Coredump ID is required")
       ELSE GetCoredumpInfo(decodedId(id))
  ELSE IF name = "extract_coredump"
  THEN IF id = "" \/ outputPath = ""
       THEN Rejected(name, "Coredump ID and output path are required")
       ELSE ExtractCoredump(decodedId(id), outputPath)
  ELSE IF id = "" THEN Rejected(name, "Coredump ID is required")
       ELSE GetStackTrace(decodedId(id))

\* String(v) of an argument that is a string or is not there
String(v) == Template(v)

\* the CallTool handler on a request for the tool name with these arguments
CallTool(name, idArgument, pathArgument) ==
  Dispatched(name, String(idArgument), String(pathArgument))

Next ==
  \/ \E onlyPresent \in BOOLEAN : ListCoredumps(onlyPresent)
  \/ \E id \in RequestIds : GetCoredumpInfo(id)
  \/ \E id \in RequestIds : ExtractCoredump(id, OutputPath)
  \/ \E id \in RequestIds : RemoveCoredump(id)
  \/ \E id \in RequestIds : GetStackTrace(id)
  \/ \E name \in IdTools, idArgument \in IdArguments, pathArgument \in PathArguments :
       CallTool(name, idArgument, pathArgument)
  \/ \E i \in Pool : Crash(i)
  \/ \E i \in Pool : Vacuum(i)

Spec == Init /\ [][Next]_vars

(***************************************************************************)
(* Overlapping getStackTrace requests.  The server's handlers are async    *)
(* functions: each runs without interruption up to its next await of an    *)
(* external command, where another request's handler may run.  The steps   *)
(* below are the stretches of getStackTrace between its awaits, for        *)
(* requests whose ids are in the mapping (no lookup refresh is awaited).   *)
(***************************************************************************)
\* the mapping a listing of journal J leaves
mapOf(J) == listingOf[J][CHOOSE st \in ToolStyles : TRUE][FALSE].map

InitAsync ==
  /\ journal \in (SUBSET Pool) \ {{}}
  /\ coredumps = mapOf(journal)
  /\ files = {}
  /\ last = [op |-> "none", id |-> "", onlyPresent |-> FALSE, result |-> "ok",
             calls |-> NoCalls, ret |-> <<>>, hit |-> FALSE, dirty |-> FALSE,
             message |-> <<>>, core |-> NoPath, stale |-> FALSE]
  /\ pure = [op |-> "none", input |-> [kind |-> "none"], out |-> <<>>]
  /\ running = [p \in Invocations |-> NoInvocation]

\* invocation p goes on as inv; the others are as they were
Goes(p, inv) == running' = [running EXCEPT ![p] = inv]

\* invocation p has thrown: the catch block awaits rm -f of tempCorePath when
\* there is one, and throws at once otherwise
Thrown(p) ==
  [running[p] EXCEPT !.pc = IF running[p].temp # NoPath THEN "catch" ELSE "idle"]

\* a request get_stacktrace(id) arrives: the handler runs up to its first
\* await, of the nested extractCoredump when the record has no dump path and
\* of the writing of the command file otherwise
Started(p, id) ==
  /\ running[p].pc = "idle"
  /\ id \in DOMAIN coredumps
  /\ running' =
       [q \in Invocations |->
          IF q = p
          THEN [pc    |-> IF coredumps[id].coredump = NoPath THEN "dump" ELSE "echo",
                id    |-> id,
                temp  |-> IF coredumps[id].coredump = NoPath
                          THEN tempCorePath(coredumps[id].pid) ELSE NoPath,
                core  |-> NoPath,
                alone |-> \A o \in Invocations \ {p} : running[o].pc = "idle",
                lost  |-> {}]
          ELSE IF running[q].pc = "idle" THEN running[q]
          ELSE [running[q] EXCEPT !.alone = FALSE]]
  /\ UNCHANGED <<coredumps, journal, files, last, pure>>

\* coredumpctl dump has ended: the nested extractCoredump records the path
\* and the handler goes on to write the command file
Dumped(p, ok) ==
  /\ running[p].pc = "dump"
  /\ IF ok /\ HasCore(coredumps[running[p].id].pid)
     THEN /\ files' = files \cup {running[p].temp}
          /\ coredumps' = extracted(coredumps, running[p].id, running[p].temp)
          /\ Goes(p, [running[p] EXCEPT !.pc = "echo"])
     ELSE /\ Goes(p, Thrown(p))
          /\ UNCHANGED <<coredumps, files>>
  /\ UNCHANGED <<journal, last, pure>>

\* bash has written the command file: the handler starts the debugger on the
\* path the record carries now
Echoed(p, ok) ==
  /\ running[p].pc = "echo"
  /\ IF ok
     THEN /\ files' = files \cup {gdbCommandFile}
          /\ Goes(p, [running[p] EXCEPT !.pc = "gdb",
                                        !.core = coredumps[running[p].id].coredump])
     ELSE /\ Goes(p, Thrown(p))
          /\ UNCHANGED files
  /\ UNCHANGED <<coredumps, journal, last, pure>>

\* the debugger has run: it read the command file and the dump file, and the
\* handler parses its output and begins the cleanup
GdbRun(p, ok) ==
  /\ running[p].pc = "gdb"
  /\ Goes(p, [(IF ok
               THEN [running[p] EXCEPT
                       !.pc = IF running[p].temp # NoPath THEN "rmcore" ELSE "rmcmd"]
               ELSE Thrown(p))
                EXCEPT !.lost = {running[p].core, gdbCommandFile} \ files])
  /\ UNCHANGED <<coredumps, journal, files, last, pure>>

\* rm -f tempCorePath has ended
RmCore(p) ==
  /\ running[p].pc = "rmcore"
  /\ files' = files \ {running[p].temp}
  /\ Goes(p, [running[p] EXCEPT !.pc = "rmcmd"])
  /\ UNCHANGED <<coredumps, journal, last, pure>>

\* rm -f gdbCommandFile has ended: the handler returns
RmCmd(p) ==
  /\ running[p].pc = "rmcmd"
  /\ files' = files \ {gdbCommandFile}
  /\ Goes(p, [running[p] EXCEPT !.pc = "idle"])
  /\ UNCHANGED <<coredumps, journal, last, pure>>

\* the rm -f of the catch block has ended: the handler throws
Caught(p) ==
  /\ running[p].pc = "catch"
  /\ files' = files \ {running[p].temp}
  /\ Goes(p, [running[p] EXCEPT !.pc = "idle"])
  /\ UNCHANGED <<coredumps, journal, last, pure>>

NextAsync ==
  \/ \E p \in Invocations, id \in RequestIds : Started(p, id)
  \/ \E p \in Invocations, ok \in BOOLEAN : Dumped(p, ok)
  \/ \E p \in Invocations, ok \in BOOLEAN : Echoed(p, ok)
  \/ \E p \in Invocations, ok \in BOOLEAN : GdbRun(p, ok)
  \/ \E p \in Invocations : RmCore(p)
  \/ \E p \in Invocations : RmCmd(p)
  \/ \E p \in Invocations : Caught(p)

SpecAsync == InitAsync /\ [][NextAsync]_vars

(***************************************************************************)
(* Properties                                                              *)
(***************************************************************************)
\* the operations that begin with a lookup of their id
LookupOps == {"getCoredumpInfo", "extractCoredump", "removeCoredump", "getStackTrace"}

\* the last request ran the listing command and nothing else
OnlyListed == last.calls = [NoCalls EXCEPT !.list = 1]

\* the last request named an id that the refresh it ran did not bring
Unresolved ==
  /\ last.op \in LookupOps
  /\ ~last.hit
  /\ OnlyListed
  /\ last.result # "InternalError"

Range(seq) == {seq[k] : k \in 1..Len(seq)}

\* C1: after a successful listCoredumps the keys of the mapping are exactly
\* the ids the call returned, and every record held is as parsed: no
\* extracted path, command line or host name of an earlier request remains.
C1_RefreshReplaces ==
  (last.op = "listCoredumps" /\ last.result = "ok")
    => /\ DOMAIN coredumps = Range(last.ret)
       /\ Touched(coredumps) = {}
       /\ \A k \in DOMAIN coredumps :
            /\ coredumps[k].coredump = NoPath
            /\ coredumps[k].cmdline = ""
            /\ coredumps[k].hostname = ""

\* a successful refresh of a mapping that held enriched records
C1_Witness ==
  /\ last.op = "listCoredumps"
  /\ last.result = "ok"
  /\ last.dirty
  /\ last.onlyPresent
  /\ coredumps # EmptyMap

\* C2: a lookup operation runs the listing command once when its id is not
\* cached and never when it is; after the one refresh an id still absent
\* makes the operation fail; no request lists more than once or extracts
\* more than once.
C2_RefreshOnce ==
  /\ last.calls.list <= 1
  /\ last.calls.dump <= 1
  /\ last.op \in LookupOps =>
       /\ last.hit => last.calls.list = 0
       /\ ~last.hit => last.calls.list = 1
       /\ (last.id \notin DOMAIN coredumps /\ last.op # "removeCoredump")
            => last.result # "ok"
       /\ (~last.hit /\ OnlyListed) => last.result # "ok"

\* getStackTrace of an id that was not cached: one listing, one extraction
C2_Witness ==
  /\ last.op = "getStackTrace"
  /\ ~last.hit
  /\ last.result = "ok"
  /\ last.calls.list = 1
  /\ last.calls.dump = 1

PidsOf(dumps) == [k \in 1..Len(dumps) |-> dumps[k].pid]

SignalsOf(dumps) == [k \in 1..Len(dumps) |-> dumps[k].signal]

\* number of whitespace-separated tokens of line k of the row pool
Tokens(k) ==
  IF IsData(k)
  THEN Len(DataRows[k].ts) + 5 + Len(DataRows[k].exe)
         + (IF DataRows[k].size = "" THEN 0 ELSE 1)
  ELSE Cardinality({i \in 1..Len(RowLine(k)) : RowLine(k)[i] # SP})

\* the rows of at least MinParts tokens
LongRows(rows) == SelectSeq(rows, LAMBDA k : Tokens(k) >= MinParts)

\* the pids of the data rows of rows whose status is one of statuses
RowPids(rows, statuses) ==
  LET kept == SelectSeq(rows, LAMBDA k : IsData(k) /\ DataRows[k].status \in statuses)
  IN [k \in 1..Len(kept) |-> DataRows[kept[k]].pid]

\* the dumps of a structured input that a listing with this filter is to give
Wanted(list, onlyPresent) ==
  SelectSeq(list, LAMBDA i : ~onlyPresent \/ CorefileOf(i) = "present")

\* the object of dump i does not decode on the per-object path
Dropped(i) == \E k \in 1..Len(ExeOf(i)) : ExeOf(i)[k] \in {"{", "}"}

Surviving(list) == SelectSeq(list, LAMBDA i : ~Dropped(i))

ExpectedSignals(list) == [k \in 1..Len(list) |-> signalName(NumVal(SigOf(list[k])))]

WellFormed(k) ==
  /\ IsData(k)
  /\ DataRows[k].status \in {"present", "missing"}
  /\ DataRows[k].ts # <<>>
  /\ DataRows[k].exe # <<>>
  /\ DataRows[k].size # ""

\* C5 as stated: of a listing of well-formed rows the tabular parser gives
\* one record per row, whose timestamp, pid, uid, gid, signal and
\* executable path are the tokens of the row, those of the timestamp and
\* of the path joined by single spaces.
C5_AsStated ==
  (/\ pure.op \in {"tabularListCoredumps", "parseCoredumpctlOutput"}
   /\ \A k \in Range(pure.input.rows) : WellFormed(k))
    => /\ Len(pure.out) = Len(pure.input.rows)
       /\ \A n \in 1..Len(pure.out) :
            LET row == DataRows[pure.input.rows[n]] IN
            /\ pure.out[n].timestamp = join(row.ts)
            /\ pure.out[n].pid = row.pid
            /\ pure.out[n].uid = row.uid
            /\ pure.out[n].gid = row.gid
            /\ pure.out[n].signal = row.signal
            /\ pure.out[n].exe = join(row.exe)

\* C6: a row of fewer than 7 tokens or without a status token gives no
\* record and no error, and the other rows of the listing are parsed: the
\* records are those of the remaining rows, in order.
C6_MalformedRowsSkipped ==
  pure.op \in {"tabularListCoredumps", "parseCoredumpctlOutput"}
    => PidsOf(pure.out) =
         RowPids(LongRows(pure.input.rows), {"present", "missing"})

\* a listing of a row of unknown status and a good row
C6_Witness ==
  /\ pure.op = "tabularListCoredumps"
  /\ Len(pure.input.rows) = MaxRows
  /\ \E k \in Range(pure.input.rows) :
       IsData(k) /\ DataRows[k].status \notin {"present", "missing"}
  /\ Len(pure.out) = 1

\* C7: every record held under key k has id k, made of its timestamp, "-"
\* and its pid; no step changes the id, timestamp or pid of a record that
\* stays under its key, and the ids a listing returns are those of the
\* dumps of the journal it listed.
C7_IdFormat ==
  /\ [](\A k \in DOMAIN coredumps :
          /\ coredumps[k].id = k
          /\ k = coredumps[k].timestamp \o "-" \o coredumps[k].pid)
  /\ [][/\ \A k \in DOMAIN coredumps \cap DOMAIN coredumps' :
             /\ coredumps'[k].id = coredumps[k].id
             /\ coredumps'[k].timestamp = coredumps[k].timestamp
             /\ coredumps'[k].pid = coredumps[k].pid
        /\ (last' # last /\ last'.result = "ok" /\ last'.op = "listCoredumps")
             => Range(last'.ret) \subseteq {IdOf(i) : i \in journal}]_vars

\* a record enriched by getCoredumpInfo and given a path by getStackTrace
C7_Witness ==
  /\ last.op = "getStackTrace"
  /\ last.result = "ok"
  /\ last.id \in DOMAIN coredumps
  /\ coredumps[last.id].coredump # NoPath
  /\ coredumps[last.id].hostname # ""

\* the names the switch knows
KnownSignals == {<<6, "SIGABRT">>, <<11, "SIGSEGV">>, <<4, "SIGILL">>,
                 <<5, "SIGTRAP">>, <<8, "SIGFPE">>, <<9, "SIGKILL">>}

\* C8: signal codes 6, 11, 4, 5, 8 and 9 map to SIGABRT, SIGSEGV, SIGILL,
\* SIGTRAP, SIGFPE and SIGKILL; every other code n maps to "SIG" followed
\* by the decimal digits of n.
C8_SignalNames ==
  pure.op = "signalName"
    => /\ \A p \in KnownSignals : pure.input.sig = p[1] => pure.out = p[2]
       /\ (\A p \in KnownSignals : pure.input.sig # p[1])
            => pure.out = "SIG" \o toString(pure.input.sig)
       /\ pure.input.sig = 23 => pure.out = "SIG23"

\* the code 23, which the switch does not know
C8_Witness ==
  /\ pure.op = "signalName"
  /\ pure.input.sig = 23
  /\ pure.out = "SIG23"

\* what the listing of the input decodes to when printed with commas
DecodedWithCommas ==
  JSONparse(RenderListing(InputEntries(pure.input),
                          [pure.input.style EXCEPT !.commas = TRUE]))

\* C9 as stated: an array printed without commas between its objects
\* decodes after the repair to the entries, in order, that the same array
\* printed with commas decodes to, and listCoredumps returns one record
\* per entry.
C9_AsStated ==
  /\ (/\ pure.op = "correctedJson"
      /\ ~pure.input.style.commas
      /\ pure.input.style.quoted)
       => pure.out.decoded = DecodedWithCommas
  /\ (/\ pure.op = "listCoredumps"
      /\ pure.input.lacks = NoLack
      /\ ~pure.input.onlyPresent
      /\ ~pure.input.style.commas
      /\ pure.input.style.quoted)
       => /\ pure.out.result = "ok"
          /\ pure.out.path = "bulk"
          /\ pure.out.decoded = DecodedWithCommas.items
          /\ Len(pure.out.dumps) = Len(pure.input.list)

\* C10 as stated: of an array printed with commas the repaired text decodes
\* to what the text itself decodes to, and repairing twice gives the text
\* that repairing once gives.
C10_AsStated ==
  (/\ pure.op = "correctedJson"
   /\ pure.input.raw = 0
   /\ pure.input.style.commas
   /\ pure.input.style.quoted)
    => /\ pure.out.direct.kind = "array"
       /\ pure.out.decoded = pure.out.direct
       /\ pure.out.twice = pure.out.once

\* the dumps of a structured input whose entries have all their fields
Complete(in) ==
  LET keep == {k \in 1..Len(in.list) : k # in.lacks.pos}
      idx == Sorted(keep)
  IN [n \in 1..Len(idx) |-> in.list[idx[n]]]

\* C11 as stated: a listing one of whose objects lacks pid, uid, gid or
\* time does not make listCoredumps fail; that entry is dropped, and the
\* entries that have all their fields are returned and cached.
C11_AsStated ==
  (pure.op = "listCoredumps" /\ pure.input.lacks # NoLack /\ pure.out.path = "bulk")
    => /\ pure.out.result = "ok"
       /\ SignalsOf(pure.out.dumps)
            = ExpectedSignals(Wanted(Complete(pure.input), pure.input.onlyPresent))
       /\ pure.out.map = MapOf(pure.out.dumps)

\* C12 as stated: when the text of the listing is not empty, the repaired
\* text does not decode and the per-object path decodes no object,
\* listCoredumps fails with InternalError.
C12_AsStated ==
  (/\ pure.op = "listCoredumps"
   /\ TextOf(pure.input) # <<>>
   /\ pure.out.path = "fallback"
   /\ pure.out.decoded = <<>>)
    => pure.out.result = "InternalError"

\* C13: of an empty listing (an array without objects, in any layout, or
\* no text at all) listCoredumps returns the empty list and leaves the
\* mapping empty without an error, whatever onlyPresent is.
C13_EmptyListing ==
  (/\ pure.op = "listCoredumps"
   /\ \/ pure.input.raw = 0 /\ pure.input.list = <<>>
      \/ TextOf(pure.input) = <<>>)
    => /\ pure.out.result = "ok"
       /\ pure.out.dumps = <<>>
       /\ pure.out.map = EmptyMap

\* the empty array listed with the filter on
C13_Witness ==
  /\ pure.op = "listCoredumps"
  /\ pure.input.raw = 0
  /\ pure.input.list = <<>>
  /\ pure.input.onlyPresent
  /\ pure.out.path = "bulk"
  /\ pure.out.result = "ok"

\* the mappings a refresh can build from the journal as it stands
FreshMaps == {listingOf[journal][st][FALSE].map : st \in ToolStyles}

\* the step is an extractCoredump that resolved its id and ran the command
Extracts ==
  /\ \E id \in RequestIds : ExtractCoredump(id, OutputPath)
  /\ last'.calls.dump = 1

Removes ==
  /\ \E id \in RequestIds : RemoveCoredump(id)
  /\ last'.calls.delete = 1

\* after is before minus exactly the key k, every other entry as it was
Evicted(after, before, k) ==
  /\ k \in DOMAIN before
  /\ DOMAIN after = DOMAIN before \ {k}
  /\ \A x \in DOMAIN after : after[x] = before[x]

TempCores == {tempCorePath(toString(PidOf(i))) : i \in Pool}

\* C16 as stated: whenever a getStackTrace call has finished, with a trace or
\* with a failure of the extraction, of the writing of the command file or
\* of the debugger, neither the temporary dump file it wrote nor the
\* debugger's command file exists.
C16_AsStated ==
  last.op = "getStackTrace"
    => /\ gdbCommandFile \notin files
       /\ files \cap TempCores = {}

\* C17 as stated: a stack trace is never cached and every query extracts
\* anew: a getStackTrace call on a dump that no extractCoredump request has
\* extracted runs its own extraction to a temporary file, so the debugger
\* always reads a dump file that exists at that moment, never a temporary
\* file that an earlier call has deleted.
C17_AsStated ==
  (last.op = "getStackTrace" /\ last.calls.gdb = 1)
    => /\ ~last.stale
       /\ last.core \in TempCores => last.calls.dump = 1

\* the core pattern of the input is a pipe to a handler
IsPipe == Trim(pure.input.corePattern) # <<>> /\ Head(Trim(pure.input.corePattern)) = "|"

\* the core pattern of the input names systemd-coredump
NamesSystemd == "systemd-coredump" \in Range(pure.input.corePattern)

\* the core size limit of the input is zero
LimitZero == pure.input.ulimitOutput = <<"0">>

\* C18: getCoreDumpConfig gives systemdHandled exactly when the core pattern
\* begins with '|' and names systemd-coredump, and enabled exactly when the
\* core size limit is not 0 and the pattern is handled by systemd or is no
\* pipe.  So enabled is false when the limit is 0 and when the pattern
\* pipes to another handler, and systemdHandled implies a pipe.
C18_ConfigFlags ==
  (pure.op = "getCoreDumpConfig" /\ pure.out.result = "ok")
    => /\ pure.out.ret[1].systemdHandled <=> (IsPipe /\ NamesSystemd)
       /\ pure.out.ret[1].enabled
            <=> (~LimitZero /\ (pure.out.ret[1].systemdHandled \/ ~IsPipe))
       /\ LimitZero => ~pure.out.ret[1].enabled
       /\ (IsPipe /\ ~NamesSystemd) => ~pure.out.ret[1].enabled
       /\ pure.out.ret[1].systemdHandled => IsPipe

\* a pattern that names systemd-coredump without being a pipe, read with a
\* limit that is not zero
C18_Witness ==
  /\ pure.op = "getCoreDumpConfig"
  /\ pure.out.result = "ok"
  /\ NamesSystemd
  /\ ~IsPipe
  /\ ~LimitZero
  /\ pure.out.ret[1].enabled
  /\ ~pure.out.ret[1].systemdHandled

\* what a reading of the configuration of the input reports as enabled
ReadsEnabled == ~LimitZero /\ (~IsPipe \/ NamesSystemd)

\* the limit the request asks for
AskedLimit == IF pure.input.enabled THEN "unlimited" ELSE "0"

\* C19: setCoreDumpEnabled(e) runs the limit commands with unlimited when e
\* is true and 0 when e is false, reads the configuration again and returns
\* true exactly when the configuration read has enabled = e, false
\* otherwise; a mismatch is a false return value and no error, and an
\* error is raised exactly when one of the external commands fails.
C19_SetReturnsMatch ==
  pure.op = "setCoreDumpEnabled"
    => /\ pure.out.result = IF pure.input.failing = 0 THEN "ok" ELSE "InternalError"
       /\ pure.out.result = "ok"
            => /\ pure.out.ret = <<ReadsEnabled = pure.input.enabled>>
               /\ pure.out.ran = <<"cat /proc/sys/kernel/core_pattern", "ulimit -c",
                                   "ulimit -c " \o AskedLimit,
                                   "ulimit -S -c " \o AskedLimit,
                                   "cat /proc/sys/kernel/core_pattern", "ulimit -c">>
       /\ pure.out.result # "ok"
            => /\ pure.out.ret = <<>>
               /\ Len(pure.out.ran) = pure.input.failing
               /\ Len(pure.out.ran) >= 3 => pure.out.ran[3] = "ulimit -c " \o AskedLimit

\* enabling was asked for, every command succeeded, the limit read again is
\* 0: the call returns false
C19_Witness ==
  /\ pure.op = "setCoreDumpEnabled"
  /\ pure.input.enabled
  /\ LimitZero
  /\ pure.out.result = "ok"
  /\ pure.out.ret = <<FALSE>>

\* C20: every locator that ListResources emits for a listed dump,
\* coredump:///<id> or stacktrace:///<id>, gives that very id back in
\* ReadResource, the id under which the registry holds the dump: the percent
\* encoding the URL parser puts on the path (ids have blanks and colons) is
\* undone before the lookup.
C20_LocatorRoundTrip ==
  (pure.op = "readResource" /\ pure.out.listed.result = "ok")
    => \A k \in 1..Len(pure.out.listed.dumps) :
         /\ pure.out.coredump[k].id = pure.out.listed.dumps[k].id
         /\ pure.out.stacktrace[k].id = pure.out.listed.dumps[k].id
         /\ pure.out.coredump[k].id \in DOMAIN pure.out.listed.map

\* two dumps are listed and the path of a locator carries an encoded blank
C20_Witness ==
  /\ pure.op = "readResource"
  /\ pure.out.listed.result = "ok"
  /\ Len(pure.out.listed.dumps) = 2
  /\ "%20" \in Range(pure.out.stacktrace[2].pathname)
  /\ SP \notin Range(pure.out.stacktrace[2].pathname)
  /\ pure.out.stacktrace[2].id = pure.out.listed.dumps[2].id

\* the step is a call of a tool that takes an id, with no id among its
\* arguments
OmitsId ==
  \E name \in IdTools, pathArgument \in PathArguments :
    CallTool(name, Undefined, pathArgument)

\* C21 as stated: a tool call that omits a required argument is rejected
\* with InvalidParams before any external command has run and without a
\* change of the mapping.
C21_AsStated ==
  [][OmitsId => /\ last'.result = "InvalidParams"
                /\ last'.calls = NoCalls
                /\ coredumps' = coredumps]_vars

\* the locator of a scheme for the dump i of the pool
LocatorOf(scheme, i) ==
  <<scheme, ":", "/", "/", "/">> \o localeChars(TimeOf(i) \div 1000)
    \o <<"-", toString(PidOf(i))>>

\* the resources expected for a list of dumps of the pool
ExpectedResources(list) ==
  [k \in 1..(2 * Len(list)) |->
     IF k <= Len(list)
     THEN [uri |-> LocatorOf("coredump", list[k]), mimeType |-> "application/json"]
     ELSE [uri |-> LocatorOf("stacktrace", list[k - Len(list)]),
           mimeType |-> "text/plain"]]

\* C22: ListResources gives, for every dump of the listing whose corefile
\* status is present and for no other, one coredump:///<id> resource of
\* JSON type and one stacktrace:///<id> resource of text type, the coredump
\* family first, each family in the order of the listing (on the per-object
\* path: of the objects that decode there).
C22_ResourcesOfPresent ==
  (/\ pure.op = "readResource"
   /\ pure.out.listed.result = "ok"
   /\ pure.input.raw = 0
   /\ pure.input.lacks = NoLack)
    => /\ pure.out.listed.path = "bulk"
            => pure.out.resources = ExpectedResources(Wanted(pure.input.list, TRUE))
       /\ pure.out.listed.path = "fallback"
            => pure.out.resources
                 = ExpectedResources(Wanted(Surviving(pure.input.list), TRUE))

\* a listing of a present and a missing dump: two resources, for the one
C22_Witness ==
  /\ pure.op = "readResource"
  /\ pure.out.listed.result = "ok"
  /\ pure.out.listed.path = "bulk"
  /\ pure.input.raw = 0
  /\ pure.input.lacks = NoLack
  /\ Len(pure.input.list) = 2
  /\ Len(pure.out.resources) = 2
  /\ pure.out.resources[2].mimeType = "text/plain"

\* the parts of a line from the second on, the colons between them put back
RECURSIVE AfterLabel(_, _)
AfterLabel(line, k) ==
  IF k > Len(line) THEN <<>>
  ELSE (IF k > 2 THEN <<":">> ELSE <<>>) \o line[k] \o AfterLabel(line, k + 1)

\* the whole value text of the line of an info output that has this label
WholeValue(out, label) ==
  Concat(Trim(AfterLabel(out[CHOOSE k \in 1..Len(out) : KeyOf(out[k]) = label], 2)))

\* C23 as stated: a successful getCoredumpInfo(id) sets cmdline to the whole
\* value text after the 'Command Line' label and hostname to the whole value
\* text after the 'Hostname' label, a value that has a ':' of its own kept in
\* full, and leaves the other fields of the record as they were.
C23_AsStated ==
  (last.op = "getCoredumpInfo" /\ last.result = "ok")
    => \E out \in InfoOutputs :
         /\ coredumps[last.id].cmdline = WholeValue(out, "Command Line")
         /\ coredumps[last.id].hostname = WholeValue(out, "Hostname")

\* C24 as stated: entries of a listing with the same timestamp and pid
\* collapse to one dump: the mapping holds one record for the id, the list
\* listCoredumps returns has no two records of the same id, and its length
\* is the size of the mapping.
C24_AsStated ==
  (pure.op = "listCoredumps" /\ pure.out.result = "ok")
    => /\ \A m, n \in 1..Len(pure.out.dumps) :
            pure.out.dumps[m].id = pure.out.dumps[n].id => m = n
       /\ Len(pure.out.dumps) = Cardinality(DOMAIN pure.out.map)

\* a row marked present that has an executable path, with or without a
\* size token after it
PresentRow(k) ==
  /\ IsData(k)
  /\ DataRows[k].status = "present"
  /\ DataRows[k].exe # <<>>

\* C25 as stated: in tabular mode the size token is dropped only when it is
\* there: of a row that ends with the executable path the record's path is
\* every token after the status token, of a row with a size token it is
\* every token after the status token but the size.
C25_AsStated ==
  (/\ pure.op \in {"tabularListCoredumps", "presentListCoredumps"}
   /\ \A k \in Range(pure.input.rows) : PresentRow(k))
    => /\ Len(pure.out) = Len(pure.input.rows)
       /\ \A n \in 1..Len(pure.out) :
            pure.out[n].exe = join(DataRows[pure.input.rows[n]].exe)

\* the pid values of decoded entries
DecodedPids(entries) == [k \in 1..Len(entries) |-> Get(entries[k], "pid")]

\* the pid values of dumps of the pool
PoolPids(list) == [k \in 1..Len(list) |-> NumVal(PidOf(list[k]))]

\* C26: on the per-object path every brace-delimited piece of the text that
\* has no brace inside is decoded on its own, its bare keys quoted first; a
\* piece that does not decode is skipped without an error, and the entries
\* that decode are returned in the order of the text, the listing not
\* failing.
C26_FallbackSkips ==
  (/\ pure.op = "listCoredumps"
   /\ pure.out.path = "fallback"
   /\ pure.input.lacks = NoLack)
    => /\ pure.out.result = "ok"
       /\ pure.input.raw # 0 => pure.out.decoded = <<>>
       /\ pure.input.raw = 0
            => /\ DecodedPids(pure.out.decoded) = PoolPids(Surviving(pure.input.list))
               /\ PidsOf(pure.out.dumps)
                    = [k \in 1..Len(Wanted(Surviving(pure.input.list),
                                           pure.input.onlyPresent)) |->
                         toString(PidOf(Wanted(Surviving(pure.input.list),
                                               pure.input.onlyPresent)[k]))]

\* of two objects the first does not decode on the per-object path and is
\* skipped, the second is returned
C26_Witness ==
  /\ pure.op = "listCoredumps"
  /\ pure.out.path = "fallback"
  /\ pure.input.lacks = NoLack
  /\ pure.input.raw = 0
  /\ ~pure.input.onlyPresent
  /\ Len(pure.input.list) = 2
  /\ Dropped(pure.input.list[1])
  /\ ~Dropped(pure.input.list[2])
  /\ Len(pure.out.dumps) = 1
  /\ pure.out.result = "ok"

\* the frame lines among the lines of a debugger output, in order
FrameLines(rows) == SelectSeq(rows, LAMBDA k : GdbLines[k].frame)

\* the thread headers among the lines of a debugger output, in order
ThreadLines(rows) == SelectSeq(rows, LAMBDA k : GdbLines[k].thread # "")

\* C27 as stated: the parsing of the debugger's output gives one Frame per
\* frame line, in order, with the line's index and function, whether or not
\* the line has an address, arguments or a file and line; a thread header
\* gives no Frame and sets the thread id; the signal is the record's.
C27_AsStated ==
  pure.op = "getStackTrace"
    => /\ Len(pure.out.frames) = Len(FrameLines(pure.input.rows))
       /\ \A n \in 1..Len(pure.out.frames) :
            n <= Len(FrameLines(pure.input.rows))
              => /\ pure.out.frames[n].index
                      = GdbLines[FrameLines(pure.input.rows)[n]].index
                 /\ pure.out.frames[n].function
                      = GdbLines[FrameLines(pure.input.rows)[n]].function
       /\ pure.out.threadId
            = IF ThreadLines(pure.input.rows) = <<>> THEN Undefined
              ELSE StrVal(GdbLines[ThreadLines(pure.input.rows)
                                     [Len(ThreadLines(pure.input.rows))]].thread)
       /\ pure.out.signal = signalName(NumVal(pure.input.sig))

\* a debugger run of invocation p met a deleted file
LostRun(p) == running[p].lost # {}

\* a debugger run of invocation p met a deleted file that p itself had made
LostOwn(p) == running[p].lost \cap {running[p].temp, gdbCommandFile} # {}

\* both invocations were in flight together during invocation p
Overlapped(p) == ~running[p].alone

\* C28 (as stated): a debugger run that finds its temporary file deleted by
\* another invocation's cleanup happens only when the invocations overlap;
\* with the requests served strictly one at a time no run meets a deleted file
C28_AsStated == \A p \in Invocations : LostRun(p) => Overlapped(p)

\* no debugger run of an overlapping invocation met a deleted file that the
\* invocation had made (SpecAsync reaches a state where this is false: the race)
NoRaceOnOwnFiles == \A p \in Invocations : ~(LostOwn(p) /\ Overlapped(p))

\* the files an invocation made itself are lost to overlapping invocations only
OwnFilesSafeAlone == \A p \in Invocations : LostOwn(p) => Overlapped(p)

\* a dump file that was there is still there after the step
Kept(path) == path \in files => path \in files'

\* the record of id carries the path an extractCoredump(id, OutputPath) gave it
ExtractedBefore(id) == id \in DOMAIN coredumps /\ coredumps[id].coredump = OutputPath

\* C29: a getStackTrace for a record whose dump path an earlier extractCoredump
\* set extracts nothing, gives the debugger that path when it runs it, leaves
\* the file in place whether it succeeds or fails, and leaves the path in the
\* record
C29_KeepsExtracted ==
  [][\A id \in RequestIds :
       (ExtractedBefore(id) /\ GetStackTrace(id))
         => /\ last'.calls.dump = 0
            /\ last'.calls.list = 0
            /\ last'.calls.gdb = 1 => last'.core = OutputPath
            /\ Kept(OutputPath)
            /\ ExtractedBefore(id)']_vars

\* a stack trace has been taken from a dump file extracted before, and the
\* file and the path are still there
C29_Witness ==
  /\ last.op = "getStackTrace"
  /\ last.result = "ok"
  /\ last.calls.gdb = 1
  /\ last.calls.dump = 0
  /\ last.core = OutputPath
  /\ OutputPath \in files
  /\ ExtractedBefore(last.id)

\* id is not in the mapping, and the journal has a dump of that id whose file
\* is missing
MissesMissing(id) ==
  /\ id \notin DOMAIN coredumps
  /\ \E i \in journal : IdOf(i) = id /\ CorefileOf(i) = "missing"

\* a request of one of the four operations that open with a lookup
LookupStep(id) ==
  \/ GetCoredumpInfo(id)
  \/ ExtractCoredump(id, OutputPath)
  \/ RemoveCoredump(id)
  \/ GetStackTrace(id)

\* the listing command of the request failed
ListingFailed(answer) ==
  answer.message = ListFailure(ToolError("coredumpctl list"))

\* C30: a lookup operation for an id that is not cached and that the journal
\* has with status missing lists once and does not fail as not found; unless
\* the listing command fails, the mapping then holds the id (removeCoredump
\* apart, which evicts it) and the ids of the journal's dumps of every status
C30_RefreshUnfiltered ==
  [][\A id \in RequestIds :
       (MissesMissing(id) /\ LookupStep(id))
         => /\ last'.calls.list = 1
            /\ ~last'.hit
            /\ ~ListingFailed(last') =>
                 /\ last'.result # "InvalidParams"
                 /\ last'.op # "removeCoredump" => id \in DOMAIN coredumps'
                 /\ \A i \in journal : IdOf(i) # id => IdOf(i) \in DOMAIN coredumps']_vars

\* a lookup operation has resolved, by a refresh, an id that only a dump with
\* status missing has, and the mapping holds a present dump as well
C30_Witness ==
  /\ last.op = "getCoredumpInfo"
  /\ ~last.hit
  /\ last.calls.list = 1
  /\ last.result = "ok"
  /\ \A i \in journal : IdOf(i) = last.id => CorefileOf(i) = "missing"
  /\ \E i \in journal : IdOf(i) = last.id
  /\ \E i \in journal : CorefileOf(i) = "present" /\ IdOf(i) \in DOMAIN coredumps
  /\ last.id \in DOMAIN coredumps

====
